---- MODULE Spec2Model ----
(***************************************************************************)
(* A model of Almusbah_Monitor: one run of ProductMonitor.run_check        *)
(* (src/main.py) over the scraper (src/scraper.py), the notifier           *)
(* (src/notifier.py) and the product store (src/database.py).              *)
(*                                                                         *)
(* Python dicts are insertion-ordered; a dict keyed by product id is a     *)
(* sequence of records with pairwise different ids, in insertion order.    *)
(* Strings the code takes apart (URLs) are sequences of tokens; the other  *)
(* strings are TLA+ strings.                                               *)
(***************************************************************************)
EXTENDS Integers, Sequences, FiniteSets, TLC

VARIABLES
    pc,                 \* where the process is in main() / run_check()
    run,                \* which process run this is (one main() per run)
    exit_code,          \* -1 while the process runs, then 0 or 1
    db,                 \* table products of the store, rows in rowid order
    statistics_saved,   \* history: rows this process wrote to table statistics
    backups_made,       \* history: backup copies this process made
    raised,             \* history: the step of run_check that raised, or "none"
    setup,              \* history: what _validate_setup found, or "none"
    earlier,            \* history: how the process before this one ended
    is_first_run,       \* ProductMonitor.is_first_run
    old_products,       \* run_check's old_products (dict)
    current_products,   \* run_check's current_products (dict)
    changes,            \* ProductMonitor.changes
    held,               \* history: the changes held when step 5 last began
    stats,              \* run_check's stats dict
    cursor,             \* position of the loop in progress (upserts, deletes, batch)
    page,               \* get_products' loop variable
    attempt,            \* _make_request's attempt parameter
    all_products,       \* get_products' all_products, then its return value
    products_found,     \* ZidScraper.products_found
    pages_processed,    \* ZidScraper.pages_processed
    errors_count,       \* ZidScraper.errors_count
    requests,           \* history: the HTTP attempts of this get_products
    sleeps,             \* history: the time.sleep calls of this get_products
    served,             \* history: the page bodies this get_products received
    notifications,      \* _send_notifications' notifications list
    results,            \* send_batch_notifications' results dict
    sender,             \* who called the _send_with_retry in progress
    n_attempt,          \* _send_with_retry's attempt
    handed,             \* history: the messages handed to _send_with_retry
    call_log,           \* history: outcomes of the attempts of the current call
    call_sleeps,        \* history: the time.sleep calls of the current call
    last_result,        \* what the last _send_with_retry returned
    error_sends         \* history: _send_message calls of the top-level handler

vars == <<pc, run, earlier, exit_code, db, statistics_saved, backups_made, raised,
          setup,
          is_first_run,
          old_products, current_products, changes, held, stats, cursor, page,
          attempt, all_products, products_found, pages_processed,
          errors_count, requests, sleeps, served, notifications, results,
          sender, n_attempt, handed, call_log, call_sleeps, last_result,
          error_sends>>

monitor_vars == <<is_first_run, old_products, current_products, changes,
                  held,
                  stats, cursor>>
scraper_vars == <<page, attempt, all_products, products_found,
                  pages_processed, errors_count, requests, sleeps, served>>
notifier_vars == <<notifications, results, sender, n_attempt, handed,
                   call_log, call_sleeps, last_result, error_sends>>
store_vars == <<db, statistics_saved, backups_made>>
process_vars == <<run, earlier, exit_code, raised, setup>>

(***************************************************************************)
(* Bounds of the model and the configuration values of config.py.          *)
(***************************************************************************)
\* Process runs in one behaviour.
MaxRuns == 2
\* A page body of the scraper's inputs: at most MaxLead items that may hold a
\* product, then at most MaxPad items without a title link.
MaxLead == 1
MaxPad == 4
\* Products of a snapshot drawn as an input of the differ.
MaxSnap == 3
\* config.MAX_PAGES, config.RETRY_ATTEMPTS, config.RETRY_DELAY, config.PAGE_DELAY
MAX_PAGES == 2
RETRY_ATTEMPTS == 3
RETRY_DELAY == 2
PAGE_DELAY == 1
\* _send_with_retry's default max_retries
max_retries == 3
\* get_products' short-page threshold
SHORT_PAGE == 5

Statuses == {"Available", "Out of Stock"}
Prices == {"10.00", "12.00"}

(***************************************************************************)
(* Sequences and dicts.                                                    *)
(***************************************************************************)
Range(s) == {s[i] : i \in 1..Len(s)}

RECURSIVE MapIds(_)
MapIds(s) == IF s = <<>> THEN <<>> ELSE <<Head(s).id>> \o MapIds(Tail(s))

\* the keys of a dict
ids(d) == {d[i].id : i \in 1..Len(d)}

\* `k in d`
HasId(d, k) == \E i \in 1..Len(d) : d[i].id = k

\* `d[k]`
Get(d, k) == d[CHOOSE i \in 1..Len(d) : d[i].id = k]

\* `d[p['id']] = p`: a new key goes last, a known key keeps its place
Put(d, p) ==
    IF HasId(d, p.id)
    THEN [i \in 1..Len(d) |-> IF d[i].id = p.id THEN p ELSE d[i]]
    ELSE Append(d, p)

\* {p['id']: p for p in products}  (main.py line 245)
RECURSIVE ToDict(_)
ToDict(products) ==
    IF products = <<>> THEN <<>>
    ELSE Put(ToDict(SubSeq(products, 1, Len(products) - 1)),
             products[Len(products)])

IsDict(d) == \A i, j \in 1..Len(d) : d[i].id = d[j].id => i = j

(***************************************************************************)
(* Products.                                                               *)
(***************************************************************************)
BASE_URL == <<"http", ":", "/", "/", "shop">>

UrlOf(id) == BASE_URL \o <<"/", "products", "/", id>>

Product(id, name, price, status) ==
    [id |-> id, name |-> name, url |-> UrlOf(id), price |-> price,
     status |-> status]

\* a row of table products: the product and the columns the store keeps
Row(p, first_seen, last_updated, times_checked) ==
    [id |-> p.id, name |-> p.name, url |-> p.url, price |-> p.price,
     status |-> p.status, first_seen |-> first_seen,
     last_updated |-> last_updated, times_checked |-> times_checked]

(***************************************************************************)
(* The differ: ProductMonitor._detect_*.                                   *)
(***************************************************************************)
\* variants of _detect_new_products: one without the membership test, one
\* with the test inverted
detect_new_products_unfiltered(current, old) == current

detect_new_products_known(current, old) ==
    SelectSeq(current, LAMBDA p : HasId(old, p.id))

detect_new_products(current, old) ==
    SelectSeq(current, LAMBDA p : ~HasId(old, p.id))

\* a variant of the detection that takes an empty scrape for a failure
detect_deleted_products_guarded(current, old) ==
    IF current = <<>> THEN <<>>
    ELSE SelectSeq(old, LAMBDA p : ~HasId(current, p.id))

detect_deleted_products(current, old) ==
    SelectSeq(old, LAMBDA p : ~HasId(current, p.id))

went_out(current, old) ==
    SelectSeq(current, LAMBDA p :
        /\ HasId(old, p.id)
        /\ Get(old, p.id).status = "Available"
        /\ p.status = "Out of Stock")

\* a variant of the elif branch that does not look at the old status
came_back_any(current, old) ==
    SelectSeq(current, LAMBDA p :
        /\ HasId(old, p.id)
        /\ ~(Get(old, p.id).status = "Available" /\ p.status = "Out of Stock")
        /\ p.status = "Available")

came_back(current, old) ==
    SelectSeq(current, LAMBDA p :
        /\ HasId(old, p.id)
        /\ ~(Get(old, p.id).status = "Available" /\ p.status = "Out of Stock")
        /\ Get(old, p.id).status = "Out of Stock"
        /\ p.status = "Available")

detect_status_changes(current, old) ==
    <<went_out(current, old), came_back(current, old)>>

\* a variant of the price_changes entry with the two prices exchanged
PriceChange_swapped(new_product, old_product) ==
    [product |-> new_product, old_price |-> new_product.price,
     new_price |-> old_product.price]

PriceChange(new_product, old_product) ==
    [product |-> new_product, old_price |-> old_product.price,
     new_price |-> new_product.price]

\* a variant of the comparison that takes a new name for a change as well
price_differs_or_name(old_product, new_product) ==
    \/ old_product.price # new_product.price
    \/ old_product.name # new_product.name

\* `if old_product['price'] != new_product['price']`
price_differs(old_product, new_product) ==
    old_product.price # new_product.price

RECURSIVE detect_price_changes(_, _)
detect_price_changes(current, old) ==
    IF current = <<>> THEN <<>>
    ELSE LET new_product == Head(current)
             rest == detect_price_changes(Tail(current), old)
         IN  IF /\ HasId(old, new_product.id)
                /\ price_differs(Get(old, new_product.id), new_product)
             THEN <<PriceChange(new_product, Get(old, new_product.id))>> \o rest
             ELSE rest

NoChanges ==
    [new |-> <<>>, out_of_stock |-> <<>>, back_in_stock |-> <<>>,
     deleted |-> <<>>, price_changes |-> <<>>]

\* run_check, step 5
DetectChanges(current, old) ==
    [new |-> detect_new_products(current, old),
     deleted |-> detect_deleted_products(current, old),
     out_of_stock |-> detect_status_changes(current, old)[1],
     back_in_stock |-> detect_status_changes(current, old)[2],
     price_changes |-> detect_price_changes(current, old)]

(***************************************************************************)
(* The extractor: ZidScraper._parse_product and its helpers.  A raw item   *)
(* is what the selectors of _parse_product find in it.                     *)
(***************************************************************************)
Item(title_tag, text, title_attr, href, price, grayscale, out_button, out_text) ==
    [title_tag |-> title_tag, text |-> text, title_attr |-> title_attr,
     href |-> href, price |-> price, grayscale |-> grayscale,
     out_button |-> out_button, out_text |-> out_text]

\* the value None
None == [none |-> TRUE]

RECURSIVE Join(_)
Join(tokens) == IF tokens = <<>> THEN "" ELSE Head(tokens) \o Join(Tail(tokens))

\* s.split(sep)[-1] and s.split(sep)[0] on a sequence of tokens
RECURSIVE LastPart(_, _)
LastPart(tokens, sep) ==
    IF \A i \in 1..Len(tokens) : tokens[i] # sep THEN tokens
    ELSE LastPart(Tail(tokens), sep)

RECURSIVE FirstPart(_, _)
FirstPart(tokens, sep) ==
    IF tokens = <<>> \/ Head(tokens) = sep THEN <<>>
    ELSE <<Head(tokens)>> \o FirstPart(Tail(tokens), sep)

normalize_url(url) ==
    IF url # <<>> /\ Head(url) = "http" THEN url ELSE BASE_URL \o url

extract_product_id(url) == Join(FirstPart(LastPart(url, "/"), "?"))

(***************************************************************************)
(* ZidScraper._extract_price.  The text of the price element is a sequence *)
(* of characters; "reh" and "seen" stand for the two Arabic letters of the *)
(* currency token of line 121, which has a "." between them.               *)
(***************************************************************************)
Digits == {"0", "1", "2", "3", "4", "5", "6", "7", "8", "9"}

DigitChars == <<"0", "1", "2", "3", "4", "5", "6", "7", "8", "9">>

digit_value(c) == CHOOSE n \in 0..9 : DigitChars[n + 1] = c

Whitespace == {" "}

\* how many characters of the given kind text begins with, and ends with
leading(text, kind) ==
    CHOOSE n \in 0..Len(text) :
        /\ \A i \in 1..n : text[i] \in kind
        /\ n < Len(text) => text[n + 1] \notin kind

trailing(text, kind) ==
    CHOOSE n \in 0..Len(text) :
        /\ \A i \in 1..n : text[Len(text) + 1 - i] \in kind
        /\ n < Len(text) => text[Len(text) - n] \notin kind

\* str.strip()
strip(text) ==
    LET left == SubSeq(text, leading(text, Whitespace) + 1, Len(text))
    IN  SubSeq(left, 1, Len(left) - trailing(left, Whitespace))

\* str.find(old) counted from 1: where old first occurs in text, 0 if nowhere
find(text, old) ==
    LET starts == {i \in 1..(Len(text) + 1 - Len(old)) :
                      SubSeq(text, i, i + Len(old) - 1) = old}
    IN  IF starts = {} THEN 0
        ELSE CHOOSE i \in starts : \A j \in starts : i <= j

\* str.replace(old, ''): the occurrences of old, found from left to right,
\* are taken out
RECURSIVE replace(_, _)
replace(text, old) ==
    LET start == find(text, old)
    IN  IF start = 0 THEN text
        ELSE SubSeq(text, 1, start - 1)
             \o replace(SubSeq(text, start + Len(old), Len(text)), old)

\* re.search(r'(\d+\.?\d*)', text): None, or the digits before and after the
\* point of the first match, which begins at the first digit of text
re_search(text) ==
    LET before == leading(text, {c \in {text[i] : i \in 1..Len(text)} :
                                     c \notin Digits})
        from == SubSeq(text, before + 1, Len(text))
        whole == SubSeq(from, 1, leading(from, Digits))
        rest == SubSeq(from, Len(whole) + 1, Len(from))
    IN  IF from = <<>> THEN None
        ELSE [whole |-> whole,
              fraction |-> IF rest # <<>> /\ Head(rest) = "."
                           THEN SubSeq(rest, 2, 1 + leading(Tail(rest), Digits))
                           ELSE <<>>]

lstrip_zeros(digits) == SubSeq(digits, leading(digits, {"0"}) + 1, Len(digits))

rstrip_zeros(digits) == SubSeq(digits, 1, Len(digits) - trailing(digits, {"0"}))

\* the number that a sequence of digits writes, and the digits of a number
RECURSIVE number(_)
number(digits) ==
    IF digits = <<>> THEN 0
    ELSE 10 * number(SubSeq(digits, 1, Len(digits) - 1))
         + digit_value(digits[Len(digits)])

RECURSIVE numeral(_)
numeral(n) ==
    IF n < 10 THEN <<DigitChars[n + 1]>>
    ELSE numeral(n \div 10) \o <<DigitChars[(n % 10) + 1]>>

\* a double holds FLOAT_DIG significant decimal digits exactly, and no
\* number of more than FLOAT_MAX_DIGITS digits before the point; a number
\* of at most INT_DIGITS digits is one that the arithmetic below can hold
FLOAT_DIG == 15

FLOAT_MAX_DIGITS == 309

FLOAT_MANT_BITS == 52

INT_DIGITS == 9

RECURSIVE floor_log2(_)
floor_log2(n) == IF n < 2 THEN 0 ELSE 1 + floor_log2(n \div 2)

\* the least j with n * 2^j >= 1000, for 0 < n < 1000
RECURSIVE shifts_to_one(_)
shifts_to_one(n) == IF n >= 1000 THEN 0 ELSE 1 + shifts_to_one(2 * n)

RECURSIVE pow2_mod(_, _)
pow2_mod(k, m) == IF k = 0 THEN 1 % m ELSE (2 * pow2_mod(k - 1, m)) % m

\* float(whole.cc5) for a number that lies halfway between two numbers of
\* cents: the double nearest to it is "below" it, "above" it or, when the
\* double holds it exactly, "exact".  thousandths is the fraction cc5.  The
\* double is a multiple of 2^-k, and the remainder of the number's
\* thousandths times 2^k by 1000 tells on which side it lies.
nearest_double(whole, thousandths) ==
    LET k == IF whole >= 1 THEN FLOAT_MANT_BITS - floor_log2(whole)
             ELSE FLOAT_MANT_BITS + shifts_to_one(thousandths)
        remainder == (thousandths * pow2_mod(k, 1000)) % 1000
    IN  IF remainder = 0 THEN "exact"
        ELSE IF remainder < 500 THEN "below" ELSE "above"

\* f"{float(text):.2f}" of the matched text: the characters of the result.
\* float gives inf for a number beyond the range of a double and the format
\* writes it as "inf"; it rounds the double to the nearest number of cents,
\* and to the even one when the double lies exactly halfway.  Numbers of
\* more digits than FLOAT_DIG or INT_DIGITS are written with the digits of
\* the nearest double, which this definition does not give.
format_2f(match) ==
    LET whole_digits == lstrip_zeros(match.whole)
        fraction == rstrip_zeros(match.fraction)
    IN  CASE Len(whole_digits) > FLOAT_MAX_DIGITS -> <<"i", "n", "f">>
          [] /\ Len(whole_digits) <= INT_DIGITS
             /\ Len(whole_digits) + Len(fraction) <= FLOAT_DIG ->
             LET whole == number(whole_digits)
                 cents == number(SubSeq(fraction \o <<"0", "0">>, 1, 2))
                 third == IF Len(fraction) >= 3 THEN digit_value(fraction[3])
                          ELSE 0
                 halfway == third = 5 /\ Len(fraction) = 3
                 side == nearest_double(whole, 10 * cents + 5)
                 up == IF halfway
                       THEN \/ side = "above"
                            \/ side = "exact" /\ cents % 2 = 1
                       ELSE third >= 5
                 rounded == cents + (IF up THEN 1 ELSE 0)
             IN  numeral(whole + rounded \div 100) \o <<".">>
                 \o <<DigitChars[((rounded % 100) \div 10) + 1],
                      DigitChars[(rounded % 10) + 1]>>

\* the characters _extract_price returns for the text of the first element
\* that one of price_selectors finds; None when none finds an element
price_chars(price_elm) ==
    LET price_text == IF price_elm # None THEN strip(price_elm.text) ELSE <<>>
    IN  IF price_text = <<>> THEN <<"0", ".", "0", "0">>
        ELSE LET cleaned ==
                     strip(replace(replace(replace(price_text, <<",">>),
                                           <<"reh", ".", "seen">>),
                                   <<"S", "A", "R">>))
                 match == re_search(cleaned)
             IN  IF match # None THEN format_2f(match)
                 ELSE <<"0", ".", "0", "0">>

\* _extract_price(item): item.price is None when no selector finds a price
\* element, and else holds the element's text
extract_price(item) == Join(price_chars(item.price))

\* a variant of the status that ignores the text indicator
stock_status_no_text(has_grayscale, has_out_button, has_out_text) ==
    IF has_grayscale \/ has_out_button THEN "Out of Stock" ELSE "Available"

\* `status = "Available"` and `if has_grayscale or has_out_button or
\* has_out_text: status = "Out of Stock"`
stock_status(has_grayscale, has_out_button, has_out_text) ==
    IF has_grayscale \/ has_out_button \/ has_out_text
    THEN "Out of Stock" ELSE "Available"

parse_product(item) ==
    IF ~item.title_tag THEN None
    ELSE LET name == IF item.text # "" THEN item.text ELSE item.title_attr
             url == normalize_url(item.href)
             product_id == extract_product_id(url)
         IN  IF name = "" \/ product_id = "" THEN None
             ELSE [id |-> product_id, name |-> name, url |-> url,
                   price |-> extract_price(item),
                   status |-> stock_status(item.grayscale, item.out_button,
                                           item.out_text)]

\* get_products' loop over product_items: the products it appends
RECURSIVE parse_items(_)
parse_items(product_items) ==
    IF product_items = <<>> THEN <<>>
    ELSE LET product == parse_product(Head(product_items))
         IN  (IF product # None THEN <<product>> ELSE <<>>)
             \o parse_items(Tail(product_items))

\* the price element of a catalog entry: its price, a space and the currency
\* token
shown_price(price) ==
    [text |->
        (CASE price = "10.00" -> <<"1", "0", ".", "0", "0">>
           [] price = "12.00" -> <<"1", "2", ".", "0", "0">>)
        \o <<" ", "reh", ".", "seen">>]

\* a raw item that parses to product p, and one with no title link
ItemOf(p) ==
    Item(TRUE, p.name, "", <<"/", "products", "/", p.id>>, shown_price(p.price),
         p.status = "Out of Stock", FALSE, FALSE)

BadItem == Item(FALSE, "", "", <<>>, None, FALSE, FALSE, FALSE)

(***************************************************************************)
(* The store: DatabaseManager on table products.  now is CURRENT_TIMESTAMP.*)
(***************************************************************************)
get_all_products(table) == table

get_product(table, product_id) ==
    IF HasId(table, product_id) THEN Get(table, product_id) ELSE None

\* a variant of the upsert whose INSERT starts the count of checks at 0
upsert_product_from_zero(table, product, now) ==
    IF HasId(table, product.id)
    THEN [i \in 1..Len(table) |->
             IF table[i].id = product.id
             THEN Row(product, table[i].first_seen, now,
                      table[i].times_checked + 1)
             ELSE table[i]]
    ELSE Append(table, Row(product, now, now, 0))

\* a variant of the upsert without its INSERT branch
upsert_product_known_only(table, product, now) ==
    [i \in 1..Len(table) |->
        IF table[i].id = product.id
        THEN Row(product, table[i].first_seen, now, table[i].times_checked + 1)
        ELSE table[i]]

\* a variant of the upsert that replaces the row of a known id by a new row
upsert_product_replace(table, product, now) ==
    IF HasId(table, product.id)
    THEN [i \in 1..Len(table) |->
             IF table[i].id = product.id
             THEN Row(product, now, now, 1) ELSE table[i]]
    ELSE Append(table, Row(product, now, now, 1))

upsert_product(table, product, now) ==
    LET existing == get_product(table, product.id)
    IN  IF existing # None
        THEN [i \in 1..Len(table) |->
                 IF table[i].id = product.id
                 THEN Row(product, table[i].first_seen, now,
                          table[i].times_checked + 1)
                 ELSE table[i]]
        ELSE Append(table, Row(product, now, now, 1))

\* a variant of the delete whose WHERE clause matches no row
delete_product_none(table, product_id) == table

\* a variant of the delete without its WHERE clause
delete_product_all(table, product_id) == <<>>

delete_product(table, product_id) ==
    SelectSeq(table, LAMBDA row : row.id # product_id)

(***************************************************************************)
(* The messages of the notifier, as the template and the data formatted    *)
(* into it.                                                                *)
(***************************************************************************)
CountStatus(products, status) ==
    Cardinality({i \in 1..Len(products) : products[i].status = status})

\* _send_notifications, the message of the first run
initial_load_message(new) ==
    [kind |-> "initial_load",
     data |-> [total_loaded |-> Len(new),
               available |-> CountStatus(new, "Available"),
               out_of_stock |-> Len(new) - CountStatus(new, "Available")]]

TasksOf(type, list) == [i \in 1..Len(list) |-> [kind |-> type, data |-> list[i]]]

\* a variant of the notifications list with the price changes built first
build_notifications_prices_first(ch) ==
    TasksOf("price_change", ch.price_changes)
    \o TasksOf("new", ch.new)
    \o TasksOf("out_of_stock", ch.out_of_stock)
    \o TasksOf("back_in_stock", ch.back_in_stock)
    \o TasksOf("deleted", ch.deleted)

\* _send_notifications, the notifications list of a later run
build_notifications(ch) ==
    TasksOf("new", ch.new)
    \o TasksOf("out_of_stock", ch.out_of_stock)
    \o TasksOf("back_in_stock", ch.back_in_stock)
    \o TasksOf("deleted", ch.deleted)
    \o TasksOf("price_change", ch.price_changes)

\* no process ran before this one
NoEarlier ==
    [exit_code |-> -1, current |-> <<>>, changes |-> NoChanges, failed |-> 0]

NoStats == [total |-> 0, available |-> 0, out_of_stock |-> 0, new |-> 0,
            deleted |-> 0, went_out |-> 0, back_in |-> 0, price_changes |-> 0]

\* run_check, step 8
compute_stats(current, ch) ==
    [total |-> Len(current),
     available |-> CountStatus(current, "Available"),
     out_of_stock |-> CountStatus(current, "Out of Stock"),
     new |-> Len(ch.new),
     deleted |-> Len(ch.deleted),
     went_out |-> Len(ch.out_of_stock),
     back_in |-> Len(ch.back_in_stock),
     price_changes |-> Len(ch.price_changes)]

\* send_summary_report's message
summary_message(st) == [kind |-> "summary", data |-> st]

NoResults == [sent |-> 0, failed |-> 0, total |-> 0]

(***************************************************************************)
(* The inputs: what the site serves and what the store holds.              *)
(***************************************************************************)
SeqsUpTo(S, n) == UNION {[1..k -> S] : k \in 0..n}

\* the dicts of at most n of the given products
Snapshots(products, n) == {d \in SeqsUpTo(products, n) : IsDict(d)}

ProductsOf(idset) ==
    {Product(id, "lamp " \o id, price, status) :
        id \in idset, price \in Prices, status \in Statuses}

\* how an earlier process left a product in the store
Stored(d) == [i \in 1..Len(d) |-> Row(d[i], 0, 0, 1)]

RECURSIVE Pad(_)
Pad(n) == IF n = 0 THEN <<>> ELSE <<BadItem>> \o Pad(n - 1)

\* page bodies: at most maxLead of the given items, then as many items
\* without a title link as pads allows
PageBodies(items, maxLead, pads) ==
    {lead \o Pad(n) : lead \in SeqsUpTo(items, maxLead), n \in pads}

(***************************************************************************)
(* The state of a new process: ProductMonitor.__init__, ZidScraper.__init__ *)
(* and TelegramNotifier.__init__.                                          *)
(***************************************************************************)
NewMonitor(first, old, current, ch, hld, st, cur) ==
    /\ first = FALSE
    /\ old = <<>>
    /\ current = <<>>
    /\ ch = NoChanges
    /\ hld = NoChanges
    /\ st = NoStats
    /\ cur = 0

NewScraper(pg, att, products, found, processed, errors, reqs, slps, srvd) ==
    /\ pg = 0
    /\ att = 0
    /\ products = <<>>
    /\ found = 0
    /\ processed = 0
    /\ errors = 0
    /\ reqs = <<>>
    /\ slps = <<>>
    /\ srvd = <<>>

NewNotifier(tasks, res, who, att, hnd, log, slps, last, errs) ==
    /\ tasks = <<>>
    /\ res = NoResults
    /\ who = "none"
    /\ att = 0
    /\ hnd = <<>>
    /\ log = <<>>
    /\ slps = <<>>
    /\ last = "none"
    /\ errs = <<>>

NewHistory(code, saved, made, rsd, stp) ==
    /\ code = -1
    /\ saved = 0
    /\ made = 0
    /\ rsd = "none"
    /\ stp = "none"

NewProcess ==
    /\ NewHistory(exit_code, statistics_saved, backups_made, raised, setup)
    /\ NewMonitor(is_first_run, old_products, current_products, changes, held,
                  stats, cursor)
    /\ NewScraper(page, attempt, all_products, products_found,
                  pages_processed, errors_count, requests, sleeps, served)
    /\ NewNotifier(notifications, results, sender, n_attempt, handed,
                   call_log, call_sleeps, last_result, error_sends)

(***************************************************************************)
(* run_check, steps 1 to 3.                                                *)
(***************************************************************************)
\* a variant of the validation that leaves out the probe of the notifier
setup_valid_unprobed(outcome) == outcome \in {"ok", "telegram"}

\* _validate_setup returns True: the configuration is valid and both probes
\* succeeded
setup_valid(outcome) == outcome = "ok"

SetupOutcomes == {"config", "site_failed", "site_status", "telegram", "ok"}

\* a variant of step 1 whose abort is caught by the except clause
Validate_caught ==
    /\ pc = "validate"
    /\ \E outcome \in SetupOutcomes :
          /\ errors_count' = IF outcome = "site_failed"
                             THEN errors_count + 1 ELSE errors_count
          /\ pc' = IF setup_valid(outcome) THEN "backup" ELSE "handler"
          /\ setup' = outcome
    /\ UNCHANGED <<run, earlier, exit_code, raised, store_vars, monitor_vars,
                   notifier_vars, page, attempt, all_products, products_found,
                   pages_processed, requests, sleeps, served>>

\* _validate_setup and the sys.exit(1) of run_check
Validate ==
    /\ pc = "validate"
    /\ \E outcome \in SetupOutcomes :
          /\ errors_count' = IF outcome = "site_failed"
                             THEN errors_count + 1 ELSE errors_count
          /\ pc' = IF setup_valid(outcome) THEN "backup" ELSE "exited"
          /\ exit_code' = IF setup_valid(outcome) THEN exit_code ELSE 1
          /\ setup' = outcome
    /\ UNCHANGED <<run, earlier, raised, store_vars, monitor_vars,
                   notifier_vars, page, attempt, all_products, products_found,
                   pages_processed, requests, sleeps, served>>

\* create_backup inside its own try: a failure is logged and the run goes on
Backup ==
    /\ pc = "backup"
    /\ \E copied \in BOOLEAN :
          backups_made' = IF copied THEN backups_made + 1 ELSE backups_made
    /\ pc' = "load"
    /\ UNCHANGED <<process_vars, db, statistics_saved, monitor_vars,
                   scraper_vars, notifier_vars>>

\* get_all_products, _check_if_first_run and the start of get_products
Load ==
    /\ pc = "load"
    /\ \E raises \in BOOLEAN :
          IF raises
          THEN /\ pc' = "handler"
               /\ raised' = "load"
               /\ UNCHANGED <<is_first_run, old_products, scraper_vars>>
          ELSE /\ old_products' = get_all_products(db)
               /\ raised' = raised
               /\ is_first_run' = (Len(old_products') = 0)
               /\ all_products' = <<>>
               /\ products_found' = 0
               /\ pages_processed' = 0
               /\ errors_count' = 0
               /\ page' = 1
               /\ attempt' = 1
               /\ requests' = <<>>
               /\ sleeps' = <<>>
               /\ served' = <<>>
               /\ pc' = "request"
    /\ UNCHANGED <<run, earlier, exit_code, setup, store_vars, current_products,
                   changes, held,
                   stats, cursor, notifier_vars>>

(***************************************************************************)
(* get_products and _make_request.                                         *)
(***************************************************************************)
Request(ok) == [page |-> page, attempt |-> attempt, ok |-> ok]

\* a variant of the test that allows one attempt more
retry_request_inclusive(k) == k <= RETRY_ATTEMPTS

\* `if attempt < RETRY_ATTEMPTS` and `wait_time = RETRY_DELAY * attempt`
retry_request(k) == k < RETRY_ATTEMPTS

request_wait(k) == RETRY_DELAY * k

\* get_products returns products
ReturnProducts(products) ==
    /\ all_products' = products
    /\ pc' = "scraped"

\* _make_request: the attempt fails and another one follows
RequestFail ==
    /\ pc = "request"
    /\ retry_request(attempt)
    /\ requests' = Append(requests, Request(FALSE))
    /\ sleeps' = Append(sleeps, [why |-> "retry", page |-> page,
                                 seconds |-> request_wait(attempt)])
    /\ attempt' = attempt + 1
    /\ UNCHANGED <<pc, process_vars, store_vars, monitor_vars, notifier_vars,
                   page, all_products, products_found, pages_processed,
                   errors_count, served>>

\* a variant of the break in which get_products returns no product
RequestGiveUp_discard ==
    /\ pc = "request"
    /\ ~retry_request(attempt)
    /\ requests' = Append(requests, Request(FALSE))
    /\ errors_count' = errors_count + 1
    /\ ReturnProducts(<<>>)
    /\ UNCHANGED <<process_vars, store_vars, monitor_vars, notifier_vars,
                   page, attempt, products_found, pages_processed, sleeps,
                   served>>

\* _make_request: the last attempt fails; get_products breaks and returns
RequestGiveUp ==
    /\ pc = "request"
    /\ ~retry_request(attempt)
    /\ requests' = Append(requests, Request(FALSE))
    /\ errors_count' = errors_count + 1
    /\ ReturnProducts(all_products)
    /\ UNCHANGED <<process_vars, store_vars, monitor_vars, notifier_vars,
                   page, attempt, products_found, pages_processed, sleeps,
                   served>>

\* a variant of the test that never sees an empty page
no_items_never(product_items) == FALSE

\* `if not product_items` after both selectors
no_items(product_items) == product_items = <<>>

\* a variant of the test that counts the products parsed from the page
short_page_parsed(product_items) ==
    Len(parse_items(product_items)) < SHORT_PAGE

\* `if len(product_items) < 5`
short_page(product_items) == Len(product_items) < SHORT_PAGE

\* a variant of the test that lets the loop go one page further
more_pages_inclusive(pg) == pg <= MAX_PAGES

\* `for page in range(1, MAX_PAGES + 1)`: another turn follows page pg
more_pages(pg) == pg < MAX_PAGES

\* _make_request returns a response; get_products handles the page
RequestOk(bodies) ==
    /\ pc = "request"
    /\ \E product_items \in bodies :
          LET parsed == parse_items(product_items)
              found == all_products \o parsed
          IN  /\ requests' = Append(requests, Request(TRUE))
              /\ served' = Append(served, product_items)
              /\ IF no_items(product_items)
                 THEN /\ ReturnProducts(all_products)
                      /\ UNCHANGED <<products_found, pages_processed, sleeps,
                                     page, attempt>>
                 ELSE /\ products_found' = products_found + Len(parsed)
                      /\ pages_processed' = pages_processed + 1
                      /\ IF short_page(product_items)
                         THEN /\ ReturnProducts(found)
                              /\ UNCHANGED <<sleeps, page, attempt>>
                         ELSE IF more_pages(page)
                         THEN /\ sleeps' = Append(sleeps,
                                     [why |-> "page", page |-> page,
                                      seconds |-> PAGE_DELAY])
                              /\ page' = page + 1
                              /\ attempt' = 1
                              /\ all_products' = found
                              /\ UNCHANGED pc
                         ELSE /\ ReturnProducts(found)
                              /\ UNCHANGED <<sleeps, page, attempt>>
    /\ UNCHANGED <<process_vars, store_vars, monitor_vars, notifier_vars,
                   errors_count>>

(***************************************************************************)
(* run_check, steps 4 (its end) to 6.                                      *)
(***************************************************************************)
\* current_products = {p['id']: p for p in current_products_list}; the locals
\* of get_products and the histories of its call end with it
BuildCurrent ==
    /\ pc = "scraped"
    /\ current_products' = ToDict(all_products)
    /\ all_products' = <<>>
    /\ page' = 0
    /\ attempt' = 0
    /\ requests' = <<>>
    /\ sleeps' = <<>>
    /\ served' = <<>>
    /\ pc' = "diff"
    /\ UNCHANGED <<process_vars, store_vars, is_first_run, old_products,
                   changes, held, stats, cursor, notifier_vars, products_found,
                   pages_processed, errors_count>>

\* a variant of step 6 without the loop of deletes
AfterUpserts_no_delete(ch) == "notify"

AfterUpserts(ch) == IF Len(ch.deleted) > 0 THEN "delete" ELSE "notify"

\* a variant of the run that dispatches before it writes to the store
AfterDiff_dispatch(current, ch) == "notify"

\* step 6 follows step 5: the loop of upserts, if there is a product, then
\* the loop of deletes, if there is one, then step 7
AfterDiff(current, ch) ==
    IF Len(current) > 0 THEN "upsert" ELSE AfterUpserts(ch)

\* a variant of step 5 that extends the lists the monitor holds
assign_changes_extend(kept, detected) ==
    [key \in DOMAIN kept |-> kept[key] \o detected[key]]

\* `self.changes[...] = ...` of step 5: each list the monitor holds is
\* replaced by the list detected
assign_changes(kept, detected) == detected

Diff ==
    /\ pc = "diff"
    /\ changes' = assign_changes(changes,
                                 DetectChanges(current_products, old_products))
    /\ held' = changes
    /\ cursor' = 1
    /\ pc' = AfterDiff(current_products, changes')
    /\ UNCHANGED <<process_vars, store_vars, is_first_run, old_products,
                   current_products, stats, scraper_vars, notifier_vars>>

\* one turn of the loop over current_products.values()
Upsert ==
    /\ pc = "upsert"
    /\ \E raises \in BOOLEAN :
          IF raises
          THEN /\ pc' = "handler"
               /\ raised' = "upsert"
               /\ UNCHANGED <<db, cursor>>
          ELSE /\ db' = upsert_product(db, current_products[cursor], run)
               /\ raised' = raised
               /\ IF cursor < Len(current_products)
                  THEN cursor' = cursor + 1 /\ pc' = pc
                  ELSE cursor' = 1 /\ pc' = AfterUpserts(changes)
    /\ UNCHANGED <<run, earlier, exit_code, setup, statistics_saved, backups_made,
                   is_first_run, old_products, current_products, changes, held,
                   stats, scraper_vars, notifier_vars>>

\* one turn of the loop over changes['deleted']
Delete ==
    /\ pc = "delete"
    /\ \E raises \in BOOLEAN :
          IF raises
          THEN /\ pc' = "handler"
               /\ raised' = "delete"
               /\ UNCHANGED <<db, cursor>>
          ELSE /\ db' = delete_product(db, changes.deleted[cursor].id)
               /\ raised' = raised
               /\ IF cursor < Len(changes.deleted)
                  THEN cursor' = cursor + 1 /\ pc' = pc
                  ELSE cursor' = 1 /\ pc' = "notify"
    /\ UNCHANGED <<run, earlier, exit_code, setup, statistics_saved, backups_made,
                   is_first_run, old_products, current_products, changes, held,
                   stats, scraper_vars, notifier_vars>>

(***************************************************************************)
(* _send_notifications, send_batch_notifications and _send_with_retry.     *)
(***************************************************************************)
\* a call of _send_with_retry(message) by who begins
Hand(message, who) ==
    /\ handed' = Append(handed, message)
    /\ sender' = who
    /\ n_attempt' = 1
    /\ call_log' = <<>>
    /\ call_sleeps' = <<>>
    /\ last_result' = "none"
    /\ pc' = "send"

\* no call begins; the process goes on at next
GoOn(next) ==
    /\ pc' = next
    /\ UNCHANGED <<handed, sender, n_attempt, call_log, call_sleeps, last_result>>

\* _send_notifications returns; run_check computes stats (step 8)
ToStatistics ==
    /\ stats' = compute_stats(current_products, changes)
    /\ GoOn("save_stats")

\* _send_notifications up to its first delivery
SendNotifications ==
    /\ pc = "notify"
    /\ IF is_first_run
       THEN /\ Hand(initial_load_message(changes.new), "initial")
            /\ UNCHANGED <<notifications, results, cursor, stats>>
       ELSE /\ notifications' = build_notifications(changes)
            /\ IF notifications' # <<>>
               THEN /\ results' = [sent |-> 0, failed |-> 0,
                                   total |-> Len(notifications')]
                    /\ cursor' = 1
                    /\ Hand(notifications'[1], "batch")
                    /\ UNCHANGED stats
               ELSE /\ ToStatistics
                    /\ UNCHANGED <<results, cursor>>
    /\ UNCHANGED <<process_vars, store_vars, is_first_run, old_products,
                   current_products, changes, held, scraper_vars, error_sends>>

\* a variant of the test that allows one attempt more
retry_send_inclusive(k) == k <= max_retries

\* `if attempt < max_retries` and `wait_time = 2 * attempt`
retry_send(k) == k < max_retries

wait_time(k) == 2 * k

\* a variant of _send_with_retry that goes on after a success
SendOk_goes_on ==
    /\ pc = "send"
    /\ call_log' = Append(call_log, TRUE)
    /\ IF retry_send(n_attempt)
       THEN /\ n_attempt' = n_attempt + 1
            /\ UNCHANGED <<pc, last_result>>
       ELSE /\ last_result' = "ok"
            /\ pc' = "returned"
            /\ n_attempt' = n_attempt
    /\ UNCHANGED <<process_vars, store_vars, monitor_vars, scraper_vars,
                   notifications, results, sender, handed, call_sleeps,
                   error_sends>>

\* _send_with_retry: _send_message returns True
SendOk ==
    /\ pc = "send"
    /\ call_log' = Append(call_log, TRUE)
    /\ last_result' = "ok"
    /\ pc' = "returned"
    /\ UNCHANGED <<process_vars, store_vars, monitor_vars, scraper_vars,
                   notifications, results, sender, n_attempt, handed,
                   call_sleeps, error_sends>>

\* _send_with_retry: _send_message returns False and another attempt follows
SendFail ==
    /\ pc = "send"
    /\ retry_send(n_attempt)
    /\ call_log' = Append(call_log, FALSE)
    /\ call_sleeps' = Append(call_sleeps, wait_time(n_attempt))
    /\ n_attempt' = n_attempt + 1
    /\ UNCHANGED <<pc, process_vars, store_vars, monitor_vars, scraper_vars,
                   notifications, results, sender, handed, last_result,
                   error_sends>>

\* _send_with_retry: _send_message returns False on the last attempt
SendGiveUp ==
    /\ pc = "send"
    /\ ~retry_send(n_attempt)
    /\ call_log' = Append(call_log, FALSE)
    /\ last_result' = "failed"
    /\ pc' = "returned"
    /\ UNCHANGED <<process_vars, store_vars, monitor_vars, scraper_vars,
                   notifications, results, sender, n_attempt, handed,
                   call_sleeps, error_sends>>

\* _send_with_retry has returned to the first-run branch of _send_notifications
ReturnedInitial ==
    /\ pc = "returned"
    /\ sender = "initial"
    /\ ToStatistics
    /\ UNCHANGED <<process_vars, store_vars, is_first_run, old_products,
                   current_products, changes, held, cursor, scraper_vars,
                   notifications, results, error_sends>>

\* a variant of the tally that counts every task as sent
tally_sent_only(res, success) == [res EXCEPT !.sent = @ + 1]

\* `if success: results['sent'] += 1` `else: results['failed'] += 1`
tally(res, success) ==
    IF success THEN [res EXCEPT !.sent = @ + 1]
               ELSE [res EXCEPT !.failed = @ + 1]

\* _send_with_retry has returned to send_batch_notifications: the tally, the
\* sleep of 0.5 s and the next turn of the loop
ReturnedBatch ==
    /\ pc = "returned"
    /\ sender = "batch"
    /\ results' = tally(results, last_result = "ok")
    /\ IF cursor < Len(notifications)
       THEN /\ cursor' = cursor + 1
            /\ Hand(notifications[cursor + 1], "batch")
            /\ UNCHANGED stats
       ELSE /\ cursor' = cursor
            /\ ToStatistics
    /\ UNCHANGED <<process_vars, store_vars, is_first_run, old_products,
                   current_products, changes, held, scraper_vars, notifications,
                   error_sends>>

\* variants of the test: a summary on every run, and on none
summary_due_always(first_run) == TRUE

summary_due_never(first_run) == FALSE

\* `if not self.is_first_run` of step 10
summary_due(first_run) == ~first_run

\* save_statistics (step 9), then send_summary_report unless this is the
\* first run (step 10), else the final report and the end of main()
SaveStatistics ==
    /\ pc = "save_stats"
    /\ \E raises \in BOOLEAN :
          IF raises
          THEN /\ GoOn("handler")
               /\ raised' = "save_stats"
               /\ UNCHANGED <<statistics_saved, exit_code>>
          ELSE /\ statistics_saved' = statistics_saved + 1
               /\ raised' = raised
               /\ IF summary_due(is_first_run)
                  THEN Hand(summary_message(stats), "summary")
                       /\ UNCHANGED exit_code
                  ELSE GoOn("exited") /\ exit_code' = 0
    /\ UNCHANGED <<run, earlier, setup, db, backups_made, monitor_vars, scraper_vars,
                   notifications, results, error_sends>>

\* send_summary_report has returned: the final report and the end of main()
ReturnedSummary ==
    /\ pc = "returned"
    /\ sender = "summary"
    /\ pc' = "exited"
    /\ exit_code' = 0
    /\ UNCHANGED <<run, earlier, raised, setup, store_vars, monitor_vars, scraper_vars,
                   notifier_vars>>

\* a variant of the except clause that sends nothing
Handler_silent ==
    /\ pc = "handler"
    /\ pc' = "exited"
    /\ exit_code' = 1
    /\ UNCHANGED <<run, earlier, raised, setup, store_vars, monitor_vars, scraper_vars,
                   notifier_vars>>

\* the except clause of run_check: one _send_message, whatever it does,
\* then sys.exit(1)
Handler ==
    /\ pc = "handler"
    /\ \E delivered \in BOOLEAN : error_sends' = Append(error_sends, delivered)
    /\ pc' = "exited"
    /\ exit_code' = 1
    /\ UNCHANGED <<run, earlier, raised, setup, store_vars, monitor_vars, scraper_vars, notifications,
                   results, sender, n_attempt, handed, call_log, call_sleeps,
                   last_result>>

\* the scheduler starts main() again: new objects over the same database file
NextRun ==
    /\ pc = "exited"
    /\ run < MaxRuns
    /\ run' = run + 1
    /\ earlier' = [exit_code |-> exit_code, current |-> current_products,
                   changes |-> changes, failed |-> results.failed]
    /\ pc' = "validate"
    /\ db' = db
    /\ NewHistory(exit_code', statistics_saved', backups_made', raised',
                  setup')
    /\ NewMonitor(is_first_run', old_products', current_products', changes',
                  held',
                  stats', cursor')
    /\ NewScraper(page', attempt', all_products', products_found',
                  pages_processed', errors_count', requests', sleeps', served')
    /\ NewNotifier(notifications', results', sender', n_attempt', handed',
                   call_log', call_sleeps', last_result', error_sends')

(***************************************************************************)
(* Specifications.                                                         *)
(***************************************************************************)
\* what the site serves in Spec: product a at either price and product b at
\* one price, in stock or not, on pages of one item or none, alone or
\* followed by SHORT_PAGE - 1 items without a title link
CatalogProducts ==
    ProductsOf({"a"})
    \cup {Product("b", "lamp b", "10.00", status) : status \in Statuses}

CatalogItems == {ItemOf(p) : p \in CatalogProducts} \cup {BadItem}

CatalogBodies == PageBodies(CatalogItems, 1, {0, SHORT_PAGE - 1})

\* the whole program, run after run, from the first start on an empty
\* database file
Init ==
    /\ pc = "validate"
    /\ run = 1
    /\ earlier = NoEarlier
    /\ db = <<>>
    /\ NewProcess

Scrape(bodies) ==
    \/ RequestFail
    \/ RequestGiveUp
    \/ RequestOk(bodies)
    \/ BuildCurrent

Dispatch ==
    \/ SendNotifications
    \/ SendOk
    \/ SendFail
    \/ SendGiveUp
    \/ ReturnedInitial
    \/ ReturnedBatch
    \/ SaveStatistics
    \/ ReturnedSummary
    \/ Handler

Next ==
    \/ Validate
    \/ Backup
    \/ Load
    \/ Scrape(CatalogBodies)
    \/ Diff
    \/ Upsert
    \/ Delete
    \/ Dispatch
    \/ NextRun

Spec == Init /\ [][Next]_vars

\* the scraper alone, from the start of a process to the dict run_check
\* builds of what get_products returns, over every shape of page
ScrapeItems == {ItemOf(Product("a", "lamp a", "10.00", "Available")), BadItem}

ScrapeBodies == PageBodies(ScrapeItems, MaxLead, 0..MaxPad)

NextScrape ==
    \/ Validate
    \/ Backup
    \/ Load
    \/ Scrape(ScrapeBodies)

SpecScrape == Init /\ [][NextScrape]_vars

\* the scraper over pages whose one product shows any combination of the
\* three out-of-stock indicators
StatusItems ==
    {Item(TRUE, "lamp a", "", <<"/", "products", "/", "a">>,
          shown_price("10.00"),
          grayscale, out_button, out_text) :
        grayscale \in BOOLEAN, out_button \in BOOLEAN, out_text \in BOOLEAN}

StatusBodies == PageBodies(StatusItems, 1, {0, SHORT_PAGE - 1})

NextStatus ==
    \/ Validate
    \/ Backup
    \/ Load
    \/ Scrape(StatusBodies)

SpecStatus == Init /\ [][NextStatus]_vars

\* the scraper over pages whose one product links to the same catalog entry
\* by a relative URL, one with a query string, one with a trailing slash, or
\* an absolute URL
IdHrefs ==
    {<<"/", "products", "/", "a">>,
     <<"/", "products", "/", "a", "?", "variant=1">>,
     <<"/", "products", "/", "a", "/">>,
     BASE_URL \o <<"/", "products", "/", "a">>}

IdItems ==
    {Item(TRUE, "lamp a", "", href, shown_price("10.00"), FALSE, FALSE, FALSE) :
        href \in IdHrefs}

IdBodies == PageBodies(IdItems, 1, {0, SHORT_PAGE - 1})

NextIds ==
    \/ Validate
    \/ Backup
    \/ Load
    \/ Scrape(IdBodies)

SpecIds == Init /\ [][NextIds]_vars

\* the scraper over pages whose one product has no price element, or one
\* with any text of at most MaxText characters of PriceAlphabet, one of the
\* prices of the docstring of _extract_price, a price that lies halfway
\* between two numbers of cents, or a numeral too long for a double
MaxText == 3

PriceAlphabet == {"1", "5", ".", ",", " ", "x"}

Overlong == [i \in 1..(FLOAT_MAX_DIGITS + 1) |-> "9"]

PriceExamples ==
    {<<"4", "6", "0">>,
     <<"4", "6", "0", ".", "0", "0">>,
     <<"1", ",", "2", "0", "0", ".", "0", "0", " ", "reh", ".", "seen">>,
     <<"1", ",", "2", "0", "0", ".", "5", "0", " ", "S", "A", "R">>,
     <<"S", "A", "R", " ", "9", "9", ".", "9", "9", "5">>,
     <<"2", ".", "6", "7", "5">>,
     Overlong}

PriceTexts == UNION {[1..n -> PriceAlphabet] : n \in 0..MaxText} \cup PriceExamples

PriceElements == {None} \cup {[text |-> text] : text \in PriceTexts}

PriceItems ==
    {Item(TRUE, "lamp a", "", <<"/", "products", "/", "a">>, price_elm,
          FALSE, FALSE, FALSE) :
        price_elm \in PriceElements}

PriceBodies == PageBodies(PriceItems, 1, {0})

NextPrice ==
    \/ Validate
    \/ Backup
    \/ Load
    \/ Scrape(PriceBodies)

SpecPrice == Init /\ [][NextPrice]_vars

\* the scraper over pages of at most MaxItems items, each of them product a
\* or b as the site lists it, product a named by the title attribute of its
\* link, or an item that lacks the title link, the name, the last segment of
\* the URL or the href
MaxItems == 3

DropItems ==
    {ItemOf(Product("a", "lamp a", "10.00", "Available")),
     ItemOf(Product("b", "lamp b", "12.00", "Available")),
     Item(TRUE, "", "lamp a", <<"/", "products", "/", "a">>,
          shown_price("10.00"), FALSE, FALSE, FALSE),
     BadItem,
     Item(TRUE, "", "", <<"/", "products", "/", "a">>, shown_price("10.00"),
          FALSE, FALSE, FALSE),
     Item(TRUE, "lamp a", "", <<"/", "products", "/", "a", "/">>,
          shown_price("10.00"), FALSE, FALSE, FALSE),
     Item(TRUE, "lamp a", "", <<>>, shown_price("10.00"), FALSE, FALSE, FALSE)}

DropBodies == PageBodies(DropItems, MaxItems, {0})

NextDrop ==
    \/ Validate
    \/ Backup
    \/ Load
    \/ Scrape(DropBodies)

SpecDrop == Init /\ [][NextDrop]_vars

\* the scraper over pages that are empty, short or full
CollectBodies ==
    PageBodies(ScrapeItems, 1, {0, SHORT_PAGE - 1, SHORT_PAGE})

NextCollect ==
    \/ Validate
    \/ Backup
    \/ Load
    \/ Scrape(CollectBodies)

\* the process is sequential and every request has a timeout: a step that
\* can be taken is taken
SpecCollectFair == Init /\ [][NextCollect]_vars /\ WF_vars(NextCollect)

\* the differ alone, on every pair of snapshots of at most MaxSnap products
DiffIds == {"a", "b", "c"}

DiffSnapshots == Snapshots(ProductsOf(DiffIds), MaxSnap)

InitDiffOver(snapshots) ==
    /\ pc = "diff"
    /\ run = 1
    /\ earlier = NoEarlier
    /\ old_products \in {Stored(d) : d \in snapshots}
    /\ current_products \in snapshots
    /\ db = old_products
    /\ is_first_run = (Len(old_products) = 0)
    /\ changes = NoChanges
    /\ held = NoChanges
    /\ stats = NoStats
    /\ cursor = 0
    /\ NewHistory(exit_code, statistics_saved, backups_made, raised, setup)
    /\ page = 0
    /\ attempt = 0
    /\ all_products = <<>>
    /\ products_found = Len(current_products)
    /\ pages_processed = IF current_products = <<>> THEN 0 ELSE 1
    /\ errors_count = 0
    /\ requests = <<>>
    /\ sleeps = <<>>
    /\ served = <<>>
    /\ NewNotifier(notifications, results, sender, n_attempt, handed,
                   call_log, call_sleeps, last_result, error_sends)

InitDiff == InitDiffOver(DiffSnapshots)

SpecDiff == InitDiff /\ [][Diff]_vars

\* the differ evaluated time and again by one monitor object, which holds the
\* ChangeSet of the evaluation before, over the same or other snapshots of
\* at most two products
PureSnapshots ==
    Snapshots({Product("a", "lamp a", "10.00", "Available"),
               Product("a", "lamp a", "12.00", "Out of Stock"),
               Product("b", "lamp b", "10.00", "Available")}, 2)

DiffAgain ==
    /\ pc \in {"upsert", "delete", "notify"}
    /\ run < MaxRuns
    /\ run' = run + 1
    /\ earlier' = earlier
    /\ pc' = "diff"
    /\ \/ UNCHANGED <<old_products, current_products>>
       \/ /\ old_products' \in {Stored(d) : d \in PureSnapshots}
          /\ current_products' \in PureSnapshots
    /\ db' = old_products'
    /\ is_first_run' = (Len(old_products') = 0)
    /\ products_found' = Len(current_products')
    /\ pages_processed' = IF current_products' = <<>> THEN 0 ELSE 1
    /\ cursor' = 0
    /\ UNCHANGED <<exit_code, raised, setup, statistics_saved, backups_made,
                   changes, held, stats, page, attempt, all_products, errors_count,
                   requests, sleeps, served, notifier_vars>>

InitPure == InitDiffOver(PureSnapshots)

NextPure ==
    \/ Diff
    \/ DiffAgain

SpecPure == InitPure /\ [][NextPure]_vars

\* the differ over snapshots of at most two products in which product a
\* has either of two names, its URL with a query string or without, either
\* price and either status, and product b either of two names
RenamedProducts ==
    {[Product("a", name, price, status) EXCEPT !.url = url] :
        name \in {"lamp a", "lamp A"},
        url \in {UrlOf("a"), UrlOf("a") \o <<"?", "ref=1">>},
        price \in Prices, status \in Statuses}
    \cup {Product("b", name, "10.00", "Available") : name \in {"lamp b", "lamp B"}}

RenamedSnapshots == Snapshots(RenamedProducts, 2)

InitRenamed == InitDiffOver(RenamedSnapshots)

SpecRenamed == InitRenamed /\ [][Diff]_vars

\* one process over a store that earlier processes left empty, with one
\* product or with two
StartStores ==
    {<<>>,
     Stored(<<Product("a", "lamp a", "10.00", "Available")>>),
     Stored(<<Product("a", "lamp a", "10.00", "Available"),
              Product("b", "lamp b", "10.00", "Out of Stock")>>)}

InitOnce ==
    /\ pc = "validate"
    /\ run = 1
    /\ earlier = NoEarlier
    /\ db \in StartStores
    /\ NewProcess

NextOnce ==
    \/ Validate
    \/ Backup
    \/ Load
    \/ Scrape(CatalogBodies)
    \/ Diff
    \/ Upsert
    \/ Delete
    \/ Dispatch

SpecOnce == InitOnce /\ [][NextOnce]_vars

\* process after process over a store that earlier processes left empty, with
\* one product or with two, and a site that serves one short page with
\* product a, product b, both or none
RunsItems ==
    {ItemOf(Product("a", "lamp a", "10.00", "Available")),
     ItemOf(Product("b", "lamp b", "12.00", "Available"))}

RunsBodies == {body \in PageBodies(RunsItems, 2, {0}) : IsDict(parse_items(body))}

NextRuns ==
    \/ Validate
    \/ Backup
    \/ Load
    \/ Scrape(RunsBodies)
    \/ Diff
    \/ Upsert
    \/ Delete
    \/ Dispatch
    \/ NextRun

SpecRuns == InitOnce /\ [][NextRuns]_vars

(***************************************************************************)
(* Properties of the differ, checked under SpecDiff.                       *)
(***************************************************************************)
\* the ChangeSet of this run has been computed
ChangesBuilt == pc \in {"upsert", "delete", "notify"}

Previous == ids(old_products)

Current == ids(current_products)

Common == Previous \cap Current

PriceChanged == {changes.price_changes[i].product.id :
                    i \in 1..Len(changes.price_changes)}

\* C1: with P the previous and C the current snapshot, the new, the common
\* and the deleted identifiers are pairwise disjoint and together are
\* ids(P) \cup ids(C); the new list holds exactly the current products whose
\* id is not in P, the deleted list exactly the stored products whose id is
\* not in C, each once.
C1_Partition ==
    ChangesBuilt =>
        LET new == ids(changes.new)
            deleted == ids(changes.deleted)
        IN  /\ new = Current \ Previous
            /\ deleted = Previous \ Current
            /\ new \cap Common = {}
            /\ deleted \cap Common = {}
            /\ new \cap deleted = {}
            /\ new \cup Common \cup deleted = Previous \cup Current
            /\ Len(changes.new) = Cardinality(new)
            /\ Len(changes.deleted) = Cardinality(deleted)
            /\ \A i \in 1..Len(changes.new) :
                    changes.new[i] = Get(current_products, changes.new[i].id)
            /\ \A i \in 1..Len(changes.deleted) :
                    changes.deleted[i] = Get(old_products, changes.deleted[i].id)

\* a diff with a new, a common and a deleted product
C1_Witness ==
    /\ ChangesBuilt
    /\ changes.new # <<>>
    /\ changes.deleted # <<>>
    /\ Common # {}

\* C2: a product in both snapshots is in out_of_stock iff it was Available
\* and is Out of Stock, in back_in_stock iff it was Out of Stock and is
\* Available, never in both, in neither when the status did not change; a
\* product missing from either snapshot is in neither list.
C2_StatusTransitions ==
    ChangesBuilt =>
        LET out == ids(changes.out_of_stock)
            back == ids(changes.back_in_stock)
        IN  /\ \A id \in Common :
                    LET was == Get(old_products, id).status
                        is == Get(current_products, id).status
                    IN  /\ id \in out <=>
                              (was = "Available" /\ is = "Out of Stock")
                        /\ id \in back <=>
                              (was = "Out of Stock" /\ is = "Available")
                        /\ ~(id \in out /\ id \in back)
                        /\ was = is => (id \notin out /\ id \notin back)
            /\ out \cup back \subseteq Common
            /\ Len(changes.out_of_stock) = Cardinality(out)
            /\ Len(changes.back_in_stock) = Cardinality(back)
            /\ \A i \in 1..Len(changes.out_of_stock) :
                    changes.out_of_stock[i] \in Range(current_products)
            /\ \A i \in 1..Len(changes.back_in_stock) :
                    changes.back_in_stock[i] \in Range(current_products)

\* one diff with a product that went out of stock, one that came back and
\* one that the previous snapshot does not hold
C2_Witness ==
    /\ ChangesBuilt
    /\ changes.out_of_stock # <<>>
    /\ changes.back_in_stock # <<>>
    /\ Current \ Previous # {}

\* C3: a product in both snapshots has an entry in price_changes iff its two
\* price strings differ; the entry carries the current product, the stored
\* price as old_price and the current price as new_price; whether the status
\* changed plays no part.
C3_PriceChanges ==
    ChangesBuilt =>
        /\ \A id \in Common :
                id \in PriceChanged <=>
                    Get(old_products, id).price # Get(current_products, id).price
        /\ PriceChanged \subseteq Common
        /\ Len(changes.price_changes) = Cardinality(PriceChanged)
        /\ \A i \in 1..Len(changes.price_changes) :
                LET entry == changes.price_changes[i]
                IN  /\ entry.product = Get(current_products, entry.product.id)
                    /\ entry.old_price = Get(old_products, entry.product.id).price
                    /\ entry.new_price = entry.product.price

\* a product whose price and status both changed, and a product whose status
\* changed at the same price
C3_Witness ==
    /\ ChangesBuilt
    /\ PriceChanged \cap ids(changes.out_of_stock) # {}
    /\ ids(changes.back_in_stock) \ PriceChanged # {}

\* C4: against an empty previous snapshot every current product is new and
\* the deleted, out_of_stock, back_in_stock and price_changes lists are empty.
C4_ColdStartDiff ==
    (ChangesBuilt /\ old_products = <<>>) =>
        /\ changes.new = current_products
        /\ Len(changes.new) = Cardinality(Current)
        /\ changes.deleted = <<>>
        /\ changes.out_of_stock = <<>>
        /\ changes.back_in_stock = <<>>
        /\ changes.price_changes = <<>>

\* the diff of an empty store against a snapshot of several products
C4_Witness ==
    /\ ChangesBuilt
    /\ old_products = <<>>
    /\ Len(changes.new) > 1

(***************************************************************************)
(* Properties of the dispatcher, checked under SpecOnce.                   *)
(***************************************************************************)
\* the store has been read in this run
Loaded == pc \notin {"validate", "backup", "load"} /\ raised # "load"

\* a run that found the store empty, and a run that found products in it
ColdStart == Loaded /\ old_products = <<>>

NormalRun == Loaded /\ old_products # <<>>

\* main() has ended with this exit code
Exited(code) == pc = "exited" /\ exit_code = code

\* _send_notifications has been entered in this run
DispatchReached ==
    \/ pc \in {"send", "returned", "save_stats"}
    \/ raised = "save_stats"
    \/ Exited(0)

Kinds(messages) == [i \in 1..Len(messages) |-> messages[i].kind]

\* the call of _send_with_retry that is the latest has returned
CallFinished ==
    \/ /\ last_result = "ok"
       /\ call_log # <<>>
       /\ call_log[Len(call_log)]
    \/ /\ last_result = "failed"
       /\ Len(call_log) = max_retries
       /\ \A i \in 1..Len(call_log) : ~call_log[i]

\* C5: on a run that found the store empty and scraped N products, the only
\* message handed to _send_with_retry is the aggregate initial-load message
\* with total N, handed exactly once when the dispatcher is reached; no
\* per-item notification is built and no summary is handed over.
C5_ColdStartOneMessage ==
    ColdStart =>
        /\ Len(handed) <= 1
        /\ \A i \in 1..Len(handed) :
                /\ handed[i].kind = "initial_load"
                /\ handed[i].data.total_loaded = Len(current_products)
                /\ handed[i].data.available =
                       CountStatus(current_products, "Available")
                /\ handed[i].data.out_of_stock =
                       CountStatus(current_products, "Out of Stock")
        /\ notifications = <<>>
        /\ DispatchReached => Len(handed) = 1

\* a first run that loaded two products and ended
C5_Witness ==
    /\ ColdStart
    /\ Exited(0)
    /\ Len(current_products) = 2
    /\ Kinds(handed) = <<"initial_load">>

Rank(kind) ==
    CASE kind = "new" -> 1
      [] kind = "out_of_stock" -> 2
      [] kind = "back_in_stock" -> 3
      [] kind = "deleted" -> 4
      [] kind = "price_change" -> 5
      [] OTHER -> 6

DataOf(tasks, kind) ==
    LET group == SelectSeq(tasks, LAMBDA t : t.kind = kind)
    IN  [i \in 1..Len(group) |-> group[i].data]

\* the tasks are one per entry of the ChangeSet, group after group
OnePerEntry(tasks) ==
    /\ \A i, j \in 1..Len(tasks) :
            i < j => Rank(tasks[i].kind) <= Rank(tasks[j].kind)
    /\ \A i \in 1..Len(tasks) : Rank(tasks[i].kind) <= 5
    /\ DataOf(tasks, "new") = changes.new
    /\ DataOf(tasks, "out_of_stock") = changes.out_of_stock
    /\ DataOf(tasks, "back_in_stock") = changes.back_in_stock
    /\ DataOf(tasks, "deleted") = changes.deleted
    /\ DataOf(tasks, "price_change") = changes.price_changes

PerItem(messages) == SelectSeq(messages, LAMBDA m : m.kind # "summary")

\* send_batch_notifications is at work
InBatch == pc \in {"send", "returned"} /\ sender = "batch"

C6_Batch ==
    NormalRun =>
        /\ InBatch =>
                /\ OnePerEntry(notifications)
                /\ cursor \in 1..Len(notifications)
                /\ handed = SubSeq(notifications, 1, cursor)
                /\ results.sent + results.failed = cursor - 1
        /\ (DispatchReached /\ ~InBatch) =>
                /\ OnePerEntry(PerItem(handed))
                /\ notifications = PerItem(handed)
                /\ results.sent + results.failed = Len(notifications)

C6_Sequential ==
    Len(handed') > Len(handed) =>
        /\ pc # "send"
        /\ handed' = Append(handed, handed'[Len(handed')])
        /\ handed # <<>> => CallFinished

\* C6: on a run that found products in the store the dispatcher builds one
\* task per entry of the ChangeSet, in the order new, out_of_stock,
\* back_in_stock, deleted, price_change; the tasks are handed to
\* _send_with_retry one at a time in that order, and a task is handed over
\* only when the call for the task before it has returned, with a success
\* or after max_retries failures.
C6_SequentialBatch == [](C6_Batch) /\ [][C6_Sequential]_vars

\* the third task of a batch with a new product, a product that went out of
\* stock and a price change has been handed over
C6_Witness ==
    /\ NormalRun
    /\ pc = "send"
    /\ Kinds(handed) = <<"new", "out_of_stock", "price_change">>
    /\ results.failed = 1

\* C7: a call of _send_with_retry whose attempts all fail makes exactly three
\* attempts, sleeps 2 s after the first and 4 s after the second, does not
\* sleep after the third, and returns failure.
C7_RetryExhausted ==
    (call_log # <<>> /\ \A i \in 1..Len(call_log) : ~call_log[i]) =>
        /\ Len(call_log) <= 3
        /\ Len(call_log) = 1 => call_sleeps \in {<<>>, <<2>>}
        /\ Len(call_log) = 2 => call_sleeps \in {<<2>>, <<2, 4>>}
        /\ Len(call_log) = 3 => call_sleeps = <<2, 4>>
        /\ Len(call_sleeps) \in {Len(call_log) - 1, Len(call_log)}
        /\ Len(call_log) < 3 =>
                (pc = "send" /\ last_result = "none"
                    /\ Len(call_sleeps) = Len(call_log))
        /\ Len(call_log) = 3 => (pc # "send" /\ last_result = "failed")

\* a call that has returned after three failed attempts
C7_Witness ==
    /\ pc = "returned"
    /\ call_log = <<FALSE, FALSE, FALSE>>
    /\ call_sleeps = <<2, 4>>
    /\ last_result = "failed"

Summaries(messages) == SelectSeq(messages, LAMBDA m : m.kind = "summary")

\* one summary has been handed over, after every per-item task of this run
OneSummaryLast ==
    /\ handed # <<>>
    /\ handed[Len(handed)] =
           summary_message(compute_stats(current_products, changes))
    /\ SubSeq(handed, 1, Len(handed) - 1) = build_notifications(changes)
    /\ results.sent + results.failed = Len(build_notifications(changes))

AttemptsOn(p) == SelectSeq(requests, LAMBDA r : r.page = p)

WaitsOn(p) ==
    LET retries == SelectSeq(sleeps, LAMBDA w : w.why = "retry" /\ w.page = p)
    IN  [i \in 1..Len(retries) |-> retries[i].seconds]

AllFailed(attempts) ==
    attempts # <<>> /\ \A i \in 1..Len(attempts) : ~attempts[i].ok

\* C9: the fetch of a page numbers its attempts from 1 and makes at most
\* RETRY_ATTEMPTS of them; after the failed attempt k < RETRY_ATTEMPTS it
\* sleeps RETRY_DELAY * k and tries again; a successful attempt is the last
\* one; when all RETRY_ATTEMPTS attempts have failed it has made exactly
\* that many, does not sleep again, counts one error and returns without
\* raising.
C9_FetchRetries ==
    \A p \in 1..MAX_PAGES :
        LET attempts == AttemptsOn(p)
            n == Len(attempts)
            failed == {i \in 1..n : ~attempts[i].ok}
            retried == failed \cap (1..(RETRY_ATTEMPTS - 1))
        IN  /\ n <= RETRY_ATTEMPTS
            /\ \A i \in 1..n : attempts[i].attempt = i
            /\ \A i \in 1..n : attempts[i].ok => i = n
            /\ WaitsOn(p) = [k \in 1..Cardinality(retried) |-> RETRY_DELAY * k]
            /\ (AllFailed(attempts) /\ n < RETRY_ATTEMPTS) =>
                    (pc = "request" /\ page = p /\ attempt = n + 1)
            /\ (AllFailed(attempts) /\ n = RETRY_ATTEMPTS) =>
                    /\ pc = "scraped"
                    /\ page = p
                    /\ errors_count = 1
                    /\ raised = "none"
                    /\ exit_code = -1

\* page 1 was served at a second attempt and every attempt of page 2 failed
C9_Witness ==
    /\ pc = "scraped"
    /\ Len(AttemptsOn(1)) > 1
    /\ AttemptsOn(1)[Len(AttemptsOn(1))].ok
    /\ AllFailed(AttemptsOn(2))
    /\ Len(AttemptsOn(2)) = RETRY_ATTEMPTS
    /\ Len(WaitsOn(2)) > 1

\* the products of the given pages, as get_products accumulates them
RECURSIVE Accumulated(_)
Accumulated(pages) ==
    IF pages = <<>> THEN <<>>
    ELSE parse_items(Head(pages)) \o Accumulated(Tail(pages))

\* get_products has returned because the fetch of a page failed
FetchFailed == pc = "scraped" /\ errors_count = 1

C10_Partial ==
    /\ Loaded => errors_count <= 1
    /\ FetchFailed =>
            /\ AllFailed(AttemptsOn(page))
            /\ \A i \in 1..Len(requests) : requests[i].page <= page
            /\ Len(served) = page - 1
            /\ pages_processed = page - 1
            /\ all_products = Accumulated(served)
            /\ products_found = Len(all_products)
            /\ raised = "none"
            /\ exit_code = -1
    /\ (errors_count = 1 /\ raised = "none" /\ (ChangesBuilt \/ DispatchReached)) =>
            changes = DetectChanges(current_products, old_products)

C10_GoesOn ==
    /\ pc = "scraped" =>
            /\ pc' = "diff"
            /\ current_products' = ToDict(all_products)
            /\ errors_count' = errors_count
            /\ exit_code' = -1
    /\ (pc \in {"diff", "upsert", "delete", "notify", "send", "returned",
                "save_stats", "handler"}) =>
            /\ current_products' = current_products
            /\ errors_count' = errors_count

\* C10: when the fetch of page k fails for good, get_products asks for no
\* further page, returns the products of the pages 1..k-1 and has counted one
\* error; run_check does not end there: it builds the current snapshot from
\* the returned products and goes on to the diff, the store and the
\* notifications with it.
C10_PartialSnapshot == [](C10_Partial) /\ [][C10_GoesOn]_vars

\* a run that ended with exit code 0 after the fetch of page 2 had failed,
\* with the products of page 1 in the store
C10_Witness ==
    /\ Exited(0)
    /\ errors_count = 1
    /\ pages_processed = 1
    /\ current_products # <<>>
    /\ ids(db) = Current
    /\ handed # <<>>

\* get_products has returned
Collected == pc = "scraped"

\* the pages served before the last one
Earlier == SubSeq(served, 1, Len(served) - 1)

\* C11: a page that was fetched and holds no raw item ends the collection:
\* it is the last page requested, no error is counted, pages_processed does
\* not count it, and the products of the earlier pages are returned.
C11_EmptyPageStops ==
    /\ \A i \in 1..Len(served) :
            served[i] = <<>> => (i = Len(served) /\ Collected)
    /\ (served # <<>> /\ served[Len(served)] = <<>>) =>
            /\ page = Len(served)
            /\ \A i \in 1..Len(requests) : requests[i].page <= page
            /\ requests[Len(requests)] =
                   [page |-> page, attempt |-> attempt, ok |-> TRUE]
            /\ errors_count = 0
            /\ pages_processed = Len(served) - 1
            /\ all_products = Accumulated(Earlier)
            /\ products_found = Len(all_products)

\* page 1 gave a product and page 2 was empty
C11_Witness ==
    /\ Collected
    /\ Len(served) = 2
    /\ served[2] = <<>>
    /\ all_products # <<>>

IsShort(items) == items # <<>> /\ Len(items) < SHORT_PAGE

IsFull(items) == Len(items) >= SHORT_PAGE

\* C12: a page with some raw items but fewer than SHORT_PAGE is the last
\* page requested: its products are in the returned list and
\* pages_processed counts it.  A page with SHORT_PAGE raw items or more
\* never ends the collection by this rule, however few of its items parse:
\* unless it is page MAX_PAGES, the next page is asked for.
C12_ShortPageStops ==
    /\ \A i \in 1..Len(served) :
            IsShort(served[i]) => (i = Len(served) /\ Collected)
    /\ (served # <<>> /\ IsShort(served[Len(served)])) =>
            /\ page = Len(served)
            /\ \A i \in 1..Len(requests) : requests[i].page <= page
            /\ errors_count = 0
            /\ pages_processed = Len(served)
            /\ all_products = Accumulated(served)
            /\ products_found = Len(all_products)
    /\ \A i \in 1..Len(served) :
            (IsFull(served[i]) /\ i < MAX_PAGES) =>
                \/ i < Len(served)
                \/ pc = "request" /\ page = i + 1
                \/ Collected /\ page = i + 1 /\ errors_count = 1

\* a page of SHORT_PAGE raw items of which one parsed, then a short page
\* with a product
C12_Witness ==
    /\ Collected
    /\ Len(served) = 2
    /\ IsFull(served[1])
    /\ Len(parse_items(served[1])) = 1
    /\ IsShort(served[2])
    /\ Len(all_products) = 2

\* the pages asked for, attempt after attempt
PagesAsked == [i \in 1..Len(requests) |-> requests[i].page]

\* the pages whose fetch returned a response
PagesServed ==
    LET ok == SelectSeq(requests, LAMBDA r : r.ok)
    IN  [i \in 1..Len(ok) |-> ok[i].page]

C13_Bounded ==
    /\ requests # <<>> => PagesAsked[1] = 1
    /\ \A i \in 1..(Len(requests) - 1) :
            \/ PagesAsked[i + 1] = PagesAsked[i] /\ ~requests[i].ok
            \/ PagesAsked[i + 1] = PagesAsked[i] + 1 /\ requests[i].ok
    /\ \A i \in 1..Len(requests) :
            /\ PagesAsked[i] \in 1..MAX_PAGES
            /\ requests[i].attempt \in 1..RETRY_ATTEMPTS
    /\ PagesServed = [i \in 1..Len(served) |-> i]
    /\ Len(requests) <= MAX_PAGES * RETRY_ATTEMPTS
    /\ pc = "request" => (page \in 1..MAX_PAGES /\ attempt \in 1..RETRY_ATTEMPTS)

\* C13: get_products terminates; it asks for the pages 1, 2, ... in
\* increasing order, none skipped and none asked again after it was served,
\* never for a page above MAX_PAGES, and makes at most
\* MAX_PAGES * RETRY_ATTEMPTS attempts, at most RETRY_ATTEMPTS of them in one
\* fetch.
C13_CollectTerminates == [](C13_Bounded) /\ ((pc = "request") ~> Collected)

\* every page was full and was served at the last attempt
C13_Witness ==
    /\ Collected
    /\ Len(served) = MAX_PAGES
    /\ \A i \in 1..Len(served) : IsFull(served[i])
    /\ Len(requests) = MAX_PAGES * RETRY_ATTEMPTS

\* C14: on a run that found products in the store, a task whose delivery
\* failed on every attempt adds one to failed and nothing else: the run raises
\* nothing and does not exit, the next task of the list is handed over, or
\* after the last one the run goes on to the statistics; the tally adds one to
\* sent exactly when the call returned success.
C14_Step ==
    (NormalRun /\ pc = "returned" /\ sender = "batch") =>
        /\ CallFinished
        /\ results'.sent =
               results.sent + (IF last_result = "ok" THEN 1 ELSE 0)
        /\ results'.failed =
               results.failed + (IF last_result = "failed" THEN 1 ELSE 0)
        /\ results'.total = results.total
        /\ raised' = "none"
        /\ exit_code' = -1
        /\ IF cursor < Len(notifications)
           THEN /\ pc' = "send"
                /\ handed' = Append(handed, notifications[cursor + 1])
           ELSE /\ pc' = "save_stats"
                /\ handed' = handed

\* C14: total is the number of tasks from the start of the batch; when the
\* batch has returned sent + failed = total = the number of tasks; a run that
\* had failed deliveries and in which nothing raised ends with exit code 0 and
\* the summary handed over after every task.
C14_Tally ==
    NormalRun =>
        /\ InBatch =>
                /\ results.total = Len(notifications)
                /\ results.sent + results.failed = cursor - 1
        /\ (DispatchReached /\ ~InBatch /\ notifications # <<>>) =>
                /\ results.total = Len(build_notifications(changes))
                /\ results.sent + results.failed = results.total
                /\ raised \in {"none", "save_stats"}
        /\ (results.failed > 0 /\ pc = "exited" /\ raised = "none") =>
                /\ exit_code = 0
                /\ OneSummaryLast

\* C14: a delivery that fails every retry is counted in failed and aborts
\* neither the batch nor the run; sent + failed = total = number of tasks.
C14_FailureCounted == [](C14_Tally) /\ [][C14_Step]_vars

\* a run in which every one of two or more tasks failed and the summary was
\* handed over all the same
C14_Witness ==
    /\ NormalRun
    /\ Exited(0)
    /\ Len(notifications) >= 2
    /\ results.failed = Len(notifications)
    /\ results.sent = 0
    /\ handed[Len(handed)].kind = "summary"

\* _validate_setup has returned False in this run
SetupFailed == setup \in SetupOutcomes \ {"ok"}

\* C15: the step that validates the setup either finds it valid and goes on
\* to the backup, or ends the process with exit code 1 and leaves the store,
\* the backups and the statistics as they were.
C15_Step ==
    pc = "validate" =>
        IF setup' = "ok"
        THEN pc' = "backup" /\ exit_code' = -1
        ELSE /\ pc' = "exited"
             /\ exit_code' = 1
             /\ db' = db
             /\ backups_made' = backups_made
             /\ statistics_saved' = statistics_saved

\* C15: a run whose setup validation failed has ended with exit code 1 and has
\* made no backup, loaded nothing, scraped nothing, written nothing to the
\* store or the statistics, and handed no message to the notifier.
C15_Untouched ==
    SetupFailed =>
        /\ Exited(1)
        /\ raised = "none"
        /\ backups_made = 0
        /\ statistics_saved = 0
        /\ old_products = <<>>
        /\ current_products = <<>>
        /\ requests = <<>>
        /\ handed = <<>>
        /\ error_sends = <<>>

\* C15: when the configuration, the probe of the site or the probe of the
\* notifier fails, the run ends with a nonzero exit code before any backup,
\* load, upsert, delete or statistics write.
C15_SetupFailureAborts == [](C15_Untouched) /\ [][C15_Step]_vars

\* the probe of the notifier failed over a store that holds products
C15_Witness ==
    /\ setup = "telegram"
    /\ Exited(1)
    /\ db # <<>>

\* C16: the step in which a step of run_check raises leads to the except
\* clause and nowhere else; the except clause makes one call of _send_message,
\* does not go through _send_with_retry, writes nothing to the store, and
\* ends the process with exit code 1 whether or not the message was delivered.
C16_Step ==
    /\ (raised = "none" /\ raised' # "none") =>
            /\ pc' = "handler"
            /\ exit_code' = -1
            /\ error_sends' = <<>>
    /\ pc = "handler" =>
            /\ pc' = "exited"
            /\ exit_code' = 1
            /\ Len(error_sends') = 1
            /\ handed' = handed
            /\ call_log' = call_log
            /\ call_sleeps' = call_sleeps
            /\ store_vars' = store_vars

\* C16: a run in which a step raised is in the except clause or has ended
\* with exit code 1 after exactly one call of _send_message; a run in which
\* nothing raised never made that call.
C16_Caught ==
    /\ raised # "none" =>
            \/ pc = "handler" /\ error_sends = <<>> /\ exit_code = -1
            \/ Exited(1) /\ Len(error_sends) = 1
    /\ raised = "none" => error_sends = <<>> /\ pc # "handler"

\* C16: an exception raised after the setup is caught at the top of
\* run_check; one failure notification is attempted exactly once without
\* retry, its failure is swallowed, and the run ends with a nonzero exit code.
C16_FatalHandled == [](C16_Caught) /\ [][C16_Step]_vars

\* an upsert raised and the failure notification was not delivered
C16_Witness ==
    /\ raised = "upsert"
    /\ Exited(1)
    /\ error_sends = <<FALSE>>

\* C17: a run that has ended either ended with a nonzero exit code, or ended
\* with exit code 0 after its last message, the summary of a normal run or
\* the initial-load message of a cold start, was delivered: no run ends with
\* exit code 0 while that message was not delivered.
C17_DeliveredOrFatal ==
    pc = "exited" =>
        \/ exit_code = 1
        \/ /\ exit_code = 0
           /\ handed # <<>>
           /\ handed[Len(handed)].kind \in {"summary", "initial_load"}
           /\ last_result = "ok"

\* the raw items of the given pages, and those of them with a title link
RECURSIVE RawItems(_)
RawItems(pages) ==
    IF pages = <<>> THEN <<>> ELSE Head(pages) \o RawItems(Tail(pages))

Titled(items) == SelectSeq(items, LAMBDA item : item.title_tag)

\* how many of the three indicators an item shows
Indicators(item) ==
    (IF item.grayscale THEN 1 ELSE 0) + (IF item.out_button THEN 1 ELSE 0)
    + (IF item.out_text THEN 1 ELSE 0)

\* C18: for every combination of the three indicators the status of the
\* parsed product is Out of Stock exactly when at least one indicator holds
\* and Available exactly when none holds; it depends on how many hold and not
\* on which, and it is always one of the two tokens.
C18_StatusDerivation ==
    pc \in {"request", "scraped"} =>
        LET raw == Titled(RawItems(served))
        IN  /\ Len(all_products) = Len(raw)
            /\ \A i \in 1..Len(raw) :
                    /\ all_products[i].status \in Statuses
                    /\ all_products[i].status = "Out of Stock" <=>
                           (raw[i].grayscale \/ raw[i].out_button
                            \/ raw[i].out_text)
                    /\ all_products[i].status = "Available" <=>
                           (~raw[i].grayscale /\ ~raw[i].out_button
                            /\ ~raw[i].out_text)
            /\ \A i, j \in 1..Len(raw) :
                    Indicators(raw[i]) = Indicators(raw[j]) =>
                        all_products[i].status = all_products[j].status

\* two products collected, one showing only the text indicator and one only
\* the gray image, both out of stock
C18_Witness ==
    /\ Collected
    /\ Len(all_products) = 2
    /\ LET raw == Titled(RawItems(served))
       IN  /\ Len(raw) = 2
           /\ raw[1].out_text /\ ~raw[1].grayscale /\ ~raw[1].out_button
           /\ raw[2].grayscale /\ ~raw[2].out_text /\ ~raw[2].out_button
    /\ all_products[1].status = "Out of Stock"
    /\ all_products[2].status = "Out of Stock"

\* a URL without its trailing slashes
RECURSIVE DropTrailing(_)
DropTrailing(tokens) ==
    IF tokens # <<>> /\ tokens[Len(tokens)] = "/"
    THEN DropTrailing(SubSeq(tokens, 1, Len(tokens) - 1))
    ELSE tokens

\* the last non-empty path segment of a URL, its query string left out
LastSegment(url) == Join(LastPart(DropTrailing(FirstPart(url, "?")), "/"))

\* C19: every raw item with a title link and a name gives a product whose id
\* is the last non-empty path segment of its normalized URL with the query
\* string stripped, so that links to one catalog entry that differ only in
\* the query string or in a trailing slash give the same id.
C19_LastSegment ==
    pc \in {"request", "scraped"} =>
        LET raw == Titled(RawItems(served))
        IN  /\ Len(all_products) = Len(raw)
            /\ \A i \in 1..Len(raw) :
                    all_products[i].id = LastSegment(normalize_url(raw[i].href))

\* the loop of upserts of this run has come to its end
UpsertsDone == pc \in {"delete", "notify"} \/ DispatchReached

\* the product at position k of the current snapshot has been upserted
Counted(k) ==
    LET p == current_products[k]
    IN  /\ HasId(db, p.id)
        /\ Get(db, p.id).times_checked =
               IF HasId(old_products, p.id)
               THEN Get(old_products, p.id).times_checked + 1
               ELSE 1

\* C20: an upsert changes the row of its product and no other.  On an id the
\* store holds it adds exactly 1 to times_checked, overwrites name, url,
\* price and status and keeps first_seen; on a new id it appends a row with
\* times_checked = 1.
C20_Step ==
    (pc = "upsert" /\ db' # db) =>
        LET p == current_products[cursor]
        IN  /\ \A i \in 1..Len(db) : db[i].id # p.id => db'[i] = db[i]
            /\ IF HasId(db, p.id)
               THEN /\ Len(db') = Len(db)
                    /\ Get(db', p.id) =
                           [Get(db, p.id) EXCEPT !.name = p.name,
                                                 !.url = p.url,
                                                 !.price = p.price,
                                                 !.status = p.status,
                                                 !.last_updated = run,
                                                 !.times_checked = @ + 1]
                    /\ Get(db', p.id).first_seen = Get(db, p.id).first_seen
               ELSE /\ Len(db') = Len(db) + 1
                    /\ db'[Len(db')].id = p.id
                    /\ db'[Len(db')].times_checked = 1
                    /\ db'[Len(db')].name = p.name
                    /\ db'[Len(db')].price = p.price
                    /\ db'[Len(db')].status = p.status

\* C20: no step lowers the times_checked of an id that stays in the store,
\* and no step adds more than 1 to it.
C20_Monotone ==
    \A i \in 1..Len(db) :
        HasId(db', db[i].id) =>
            Get(db', db[i].id).times_checked
                \in {db[i].times_checked, db[i].times_checked + 1}

\* C20: in the loop of upserts the products before the cursor are counted
\* once and no other; when the loop has ended every product observed in this
\* run has one more check than the run loaded, or 1 if the run did not load
\* it.
C20_OncePerRun ==
    /\ (pc = "upsert" /\ raised = "none") =>
            \A k \in 1..Len(current_products) :
                IF k < cursor THEN Counted(k)
                ELSE LET p == current_products[k]
                     IN  IF HasId(old_products, p.id)
                         THEN Get(db, p.id).times_checked =
                                  Get(old_products, p.id).times_checked
                         ELSE ~HasId(db, p.id)
    /\ UpsertsDone => \A k \in 1..Len(current_products) : Counted(k)

\* C20: upsert_product on a known id adds 1 to times_checked, overwrites
\* name, url, price and status and keeps first_seen; on a new id it inserts
\* with times_checked = 1; times_checked never decreases while the id stays
\* and grows by exactly 1 in a run that observes the id.
C20_TimesChecked ==
    [](C20_OncePerRun) /\ [][C20_Step /\ C20_Monotone]_vars

\* a run that found a at 10.00 in the store, observed a at 12.00 and a new
\* product b, and ended: a has 2 checks, its new price and its first_seen, b
\* has 1 check
C20_Witness ==
    /\ Exited(0)
    /\ Len(old_products) = 1
    /\ Len(db) = 2
    /\ db[1].id = "a" /\ db[1].times_checked = 2 /\ db[1].price = "12.00"
    /\ db[1].first_seen = 0 /\ db[1].last_updated = 1
    /\ old_products[1].price = "10.00"
    /\ db[2].id = "b" /\ db[2].times_checked = 1 /\ db[2].first_seen = 1

\* the rows of a table other than the row of the given id, in their order
Others(table, product_id) ==
    SelectSeq(table, LAMBDA row : row.id # product_id)

\* C21: after an upsert of p, get_product(p.id) returns a record with p's id,
\* name, url, price and status and get_all_products holds p.id; after a
\* delete of an id, get_product returns None and get_all_products does not
\* hold the id; in both cases every other row is as it was.
C21_Step ==
    /\ (pc = "upsert" /\ db' # db) =>
            LET p == current_products[cursor]
                got == get_product(db', p.id)
            IN  /\ got # None
                /\ got.id = p.id
                /\ got.name = p.name
                /\ got.url = p.url
                /\ got.price = p.price
                /\ got.status = p.status
                /\ HasId(get_all_products(db'), p.id)
                /\ Cardinality({i \in 1..Len(db') : db'[i].id = p.id}) = 1
                /\ Others(db', p.id) = Others(db, p.id)
    /\ (pc = "delete" /\ db' # db) =>
            LET gone == changes.deleted[cursor].id
            IN  /\ HasId(db, gone)
                /\ get_product(db', gone) = None
                /\ ~HasId(get_all_products(db'), gone)
                /\ Others(db', gone) = Others(db, gone)
                /\ Len(db') = Len(db) - 1

\* C21: the store round trip of upsert, get_product, get_all_products and
\* delete.
C21_RoundTrip == [][C21_Step]_vars

\* a run over a store of a and b that upserted a and deleted b: a is still
\* there with its new price and b is gone
C21_Witness ==
    /\ pc = "notify"
    /\ Len(old_products) = 2
    /\ Len(changes.deleted) = 1
    /\ changes.deleted[1].id = "b"
    /\ get_product(db, "b") = None
    /\ get_product(db, "a") # None
    /\ get_product(db, "a").price = "12.00"

\* C22: an evaluation of the detection functions gives the ChangeSet that
\* the two snapshots determine, whatever ChangeSet the monitor held from an
\* evaluation before, and leaves both snapshots and the store as they were.
C22_Step ==
    (pc = "diff" /\ pc' # "diff") =>
        /\ changes' = DetectChanges(current_products, old_products)
        /\ held' = changes
        /\ old_products' = old_products
        /\ current_products' = current_products
        /\ db' = db

\* C22: after every evaluation, the first and the later ones, the ChangeSet
\* held is the one of the two snapshots of that evaluation: identical
\* snapshots give identical ChangeSets, entry by entry and in order.
C22_SameResult ==
    pc \in {"upsert", "delete", "notify"} =>
        /\ changes = DetectChanges(current_products, old_products)
        /\ db = old_products
        /\ IsDict(old_products)
        /\ IsDict(current_products)

\* C22: the diff is pure and deterministic.
C22_PureDiff == [](C22_SameResult) /\ [][C22_Step]_vars

\* an evaluation after another one, over snapshots that differ in nothing:
\* the monitor held the lists of the evaluation before, and holds no list
\* now
C22_Witness ==
    /\ run = 2
    /\ pc = "upsert"
    /\ held # NoChanges
    /\ held.new # <<>>
    /\ held.price_changes # <<>>
    /\ changes = NoChanges
    /\ Len(current_products) = 2

\* C23: when a run has ended with exit code 0, the store holds exactly the
\* ids of the current snapshot of that run, and the name, url, price and
\* status of every stored product are those of the current snapshot.
C23_StoreIsCurrent ==
    Exited(0) =>
        /\ ids(db) = ids(current_products)
        /\ Len(db) = Len(current_products)
        /\ \A i \in 1..Len(db) :
                LET p == Get(current_products, db[i].id)
                IN  /\ db[i].name = p.name
                    /\ db[i].url = p.url
                    /\ db[i].price = p.price
                    /\ db[i].status = p.status

\* a run that ended with exit code 0 after it deleted a product and changed
\* the price of another
C23_Witness ==
    /\ Exited(0)
    /\ changes.deleted # <<>>
    /\ changes.price_changes # <<>>
    /\ ids(db) = ids(current_products)

\* step 5 of this run has been done
Diffed == ChangesBuilt \/ DispatchReached \/ raised \in {"upsert", "delete"}

\* the process before this one ended with exit code 0, and this one has
\* scraped the same catalog as that one, which is not empty
SameCatalog ==
    /\ run > 1
    /\ earlier.exit_code = 0
    /\ earlier.current # <<>>
    /\ Diffed
    /\ current_products = earlier.current

\* C24: when the run before ended with exit code 0 and this run has scraped
\* the same non-empty catalog, all five lists of this run's ChangeSet are
\* empty, no per-item notification is built or handed over, and the run,
\* when it ends with exit code 0, has handed over the summary and nothing
\* else.
C24_ReportedOnce ==
    SameCatalog =>
        /\ changes = NoChanges
        /\ ~is_first_run
        /\ notifications = <<>>
        /\ PerItem(handed) = <<>>
        /\ Len(handed) <= 1
        /\ Exited(0) =>
               handed = <<summary_message(compute_stats(current_products,
                                                        changes))>>

\* the run before reported changes over two products; this run scraped the
\* same two products and handed over the summary alone
C24_Witness ==
    /\ SameCatalog
    /\ Exited(0)
    /\ earlier.changes # NoChanges
    /\ Len(current_products) = 2
    /\ Kinds(handed) = <<"summary">>

\* this run found products in the store and scraped none
Truncated == NormalRun /\ Diffed /\ current_products = <<>>

\* the run before found products in the store, scraped none and ended with
\* exit code 0
AfterTruncated ==
    /\ run > 1
    /\ earlier.exit_code = 0
    /\ earlier.current = <<>>
    /\ earlier.changes.deleted # <<>>

\* C25: a run that found products in the store and scraped none, after a
\* fetch failure or an empty first page, classifies every stored product as
\* deleted and nothing else, builds one deleted notification per product and
\* hands each over, and has removed every product from the store when the
\* dispatcher is reached.  The run after it finds the store empty: it is a
\* first run that hands over the initial-load message and nothing else.
C25_TruncatedScrape ==
    /\ Truncated =>
            /\ changes.deleted = old_products
            /\ changes.new = <<>>
            /\ changes.out_of_stock = <<>>
            /\ changes.back_in_stock = <<>>
            /\ changes.price_changes = <<>>
            /\ DispatchReached =>
                    /\ db = <<>>
                    /\ notifications = TasksOf("deleted", old_products)
            /\ (pc \in {"save_stats", "exited"} /\ raised = "none") =>
                    PerItem(handed) = TasksOf("deleted", old_products)
    /\ AfterTruncated =>
            /\ pc \in {"validate", "backup", "load"} => db = <<>>
            /\ Diffed =>
                    /\ is_first_run
                    /\ old_products = <<>>
                    /\ changes.new = current_products
                    /\ notifications = <<>>
                    /\ Len(handed) <= 1
            /\ Exited(0) => Kinds(handed) = <<"initial_load">>

\* the run before took both stored products for deleted; this run, a first
\* run, scraped both and handed over the initial-load message alone
C25_Witness ==
    /\ AfterTruncated
    /\ Len(earlier.changes.deleted) = 2
    /\ earlier.failed = 0
    /\ Exited(0)
    /\ is_first_run
    /\ Len(current_products) = 2
    /\ Kinds(handed) = <<"initial_load">>

\* the kinds of the notifications of changes
ChangeKinds ==
    {"new", "out_of_stock", "back_in_stock", "deleted", "price_change"}

\* in the run before, notifications of changes failed on every attempt, and
\* this run has scraped the catalog that run scraped
LostBefore ==
    /\ run > 1
    /\ earlier.failed > 0
    /\ Diffed
    /\ current_products = earlier.current

\* C26: when notifications of the run before failed on every attempt and
\* this run has scraped the same catalog, the store this run loaded was the
\* catalog already, so that no change of the run before is classified again:
\* no notification of a change is built or handed over in this run.
C26_LostNotRetried ==
    LostBefore =>
        /\ earlier.changes # NoChanges
        /\ ids(old_products) = ids(current_products)
        /\ changes.out_of_stock = <<>>
        /\ changes.back_in_stock = <<>>
        /\ changes.deleted = <<>>
        /\ changes.price_changes = <<>>
        /\ changes.new = <<>>
        /\ notifications = <<>>
        /\ \A i \in 1..Len(handed) : handed[i].kind \notin ChangeKinds

\* every notification of the run before failed; this run scraped the same
\* product, delivered its summary and handed over nothing else
C26_Witness ==
    /\ LostBefore
    /\ earlier.failed = Len(build_notifications(earlier.changes))
    /\ earlier.changes.new # <<>>
    /\ current_products # <<>>
    /\ Exited(0)
    /\ Kinds(handed) = <<"summary">>
    /\ last_result = "ok"

\* the product of the current snapshot has its row in the store
Written(p) ==
    /\ HasId(db, p.id)
    /\ Get(db, p.id).price = p.price
    /\ Get(db, p.id).status = p.status

\* C27: a fetch of a page happens after the load and before any write: the
\* store is still the snapshot loaded.  A write to the store happens in the
\* loops of step 6 only, after the load and the diff and before any message
\* is handed to the notifier.  The snapshot loaded never changes in the run.
\* When a message is handed over, every upsert and delete has been done.
C27_Step ==
    /\ requests' # requests =>
            \/ requests' = <<>>
            \/ /\ pc = "request"
               /\ db' = db
               /\ db = old_products
               /\ changes = NoChanges
               /\ handed = <<>>
    /\ db' # db =>
            /\ pc \in {"upsert", "delete"}
            /\ changes = DetectChanges(current_products, old_products)
            /\ handed = <<>>
            /\ handed' = <<>>
    /\ (pc \notin {"load", "exited"} /\ pc' # "validate") =>
            old_products' = old_products
    /\ handed' # handed =>
            \/ handed' = <<>>
            \/ /\ db' = db
               /\ ids(db) = ids(current_products)
               /\ \A i \in 1..Len(current_products) :
                       Written(current_products[i])

\* C27: the ChangeSet of the run is the one of the current snapshot and the
\* snapshot loaded, also when the store has been written to; while pages
\* are fetched the store is the snapshot loaded.
C27_Stages ==
    /\ Diffed => changes = DetectChanges(current_products, old_products)
    /\ pc \in {"request", "scraped", "diff"} => db = old_products
    /\ pc \in {"validate", "backup", "load"} =>
            /\ requests = <<>>
            /\ handed = <<>>

\* C27: the order of the stages of a run: load, collect, diff, store writes,
\* dispatch.
C27_StageOrder == [](C27_Stages) /\ [][C27_Step]_vars

\* a message is handed over after the store was written to: the store is no
\* longer the snapshot loaded, and the ChangeSet is the one against the
\* snapshot loaded
C27_Witness ==
    /\ pc = "send"
    /\ Len(handed) = 1
    /\ requests = <<>>
    /\ ids(db) # ids(old_products)
    /\ changes.new # <<>>
    /\ changes.deleted # <<>>
    /\ changes # DetectChanges(current_products, db)

\* the sleeps after the first n attempts, all of them failed
Backoff(n) == [k \in 1..n |-> 2 * k]

\* an attempt of the latest call succeeded
Succeeded == \E i \in 1..Len(call_log) : call_log[i]

\* C28: no attempt follows a successful one.
C28_Step ==
    (call_log' # call_log /\ call_log' # <<>>) =>
        /\ ~Succeeded
        /\ Len(call_log) < max_retries
        /\ call_log' = Append(call_log, call_log'[Len(call_log')])

\* C28: a call makes at most 3 attempts and only its last can be a success.
\* While it is in progress every attempt so far failed and attempt k was
\* followed by a sleep of 2 * k.  When it has returned, it returned success
\* exactly when an attempt succeeded and failure exactly when 3 attempts
\* failed; the sleeps are those after the failed attempts k < 3 and no
\* other.
C28_Call ==
    LET n == Len(call_log)
    IN  /\ n <= max_retries
        /\ \A i \in 1..n : call_log[i] => i = n
        /\ (pc = "send" /\ last_result = "none") =>
                /\ ~Succeeded
                /\ n = n_attempt - 1
                /\ n < max_retries
                /\ call_sleeps = Backoff(n)
        /\ last_result = "ok" =>
                /\ Succeeded
                /\ call_sleeps = Backoff(n - 1)
        /\ last_result = "failed" =>
                /\ ~Succeeded
                /\ n = max_retries
                /\ call_sleeps = Backoff(max_retries - 1)
        /\ (Succeeded /\ call_log # <<>>) => last_result = "ok"

\* C28: deliver-with-retry stops at the first successful attempt.
C28_StopsAtSuccess == [](C28_Call) /\ [][C28_Step]_vars

\* a call that returned success on its second attempt, after one sleep of
\* 2 s
C28_Witness ==
    /\ pc = "returned"
    /\ call_log = <<FALSE, TRUE>>
    /\ call_sleeps = <<2>>
    /\ last_result = "ok"

\* C29: the step that validates the setup never leads to the except clause,
\* and the except clause sends its message only in a run whose setup was
\* valid and in which a later step raised.
C29_Step ==
    /\ pc = "validate" => pc' \in {"validate", "backup", "exited"}
    /\ (error_sends' # error_sends /\ error_sends' # <<>>) =>
            /\ pc = "handler"
            /\ setup = "ok"
            /\ raised # "none"

\* C29: in a run whose setup validation failed no message was handed to
\* _send_with_retry, no attempt of a delivery was made and the except clause
\* sent nothing; the process has ended with exit code 1.  A failure
\* notification was sent only if the setup was valid.
C29_Silent ==
    /\ SetupFailed =>
            /\ handed = <<>>
            /\ call_log = <<>>
            /\ call_sleeps = <<>>
            /\ notifications = <<>>
            /\ error_sends = <<>>
            /\ last_result = "none"
            /\ pc = "exited"
            /\ exit_code = 1
    /\ pc = "handler" => setup = "ok"
    /\ error_sends # <<>> => (setup = "ok" /\ raised # "none")

\* C29: on a setup failure no notification of any kind is attempted, the
\* abort does not reach the except clause, and the exit code is 1.
C29_SetupFailureSilent == [](C29_Silent) /\ [][C29_Step]_vars

\* the probe of the site failed after its retries: the process has ended
\* and sent nothing
C29_Witness ==
    /\ setup = "site_failed"
    /\ pc = "exited"
    /\ exit_code = 1
    /\ error_sends = <<>>
    /\ handed = <<>>
    /\ errors_count = 1

\* the products that the run before classified as deleted and that this run
\* has scraped
Reappeared ==
    {earlier.changes.deleted[i].id : i \in 1..Len(earlier.changes.deleted)}
    \cap ids(current_products)

\* C30: when the run before ended with exit code 0, a product it classified
\* as deleted and that this run has scraped is not in the snapshot this run
\* loaded: it is classified as new and as nothing else, whatever its status
\* and price were when it was deleted, and when the loop of upserts has
\* ended it has a new row with times_checked = 1 and first_seen of this run.
C30_DeletedThenNew ==
    (run > 1 /\ earlier.exit_code = 0 /\ Diffed) =>
        \A id \in Reappeared :
            /\ ~HasId(old_products, id)
            /\ id \in ids(changes.new)
            /\ id \notin ids(changes.out_of_stock)
            /\ id \notin ids(changes.back_in_stock)
            /\ id \notin ids(changes.deleted)
            /\ id \notin PriceChanged
            /\ UpsertsDone =>
                    /\ HasId(db, id)
                    /\ Get(db, id).times_checked = 1
                    /\ Get(db, id).first_seen = run

\* product b was stored out of stock at 10.00, the run before deleted it,
\* and this run scraped it available at 12.00, classified it as new and
\* inserted it
C30_Witness ==
    /\ run = 2
    /\ earlier.exit_code = 0
    /\ Len(earlier.changes.deleted) = 1
    /\ earlier.changes.deleted[1].id = "b"
    /\ earlier.changes.deleted[1].status = "Out of Stock"
    /\ Exited(0)
    /\ Reappeared = {"b"}
    /\ Get(current_products, "b").status = "Available"
    /\ Get(db, "b").times_checked = 1
    /\ Get(db, "a").times_checked = 3

\* a numeral with two decimal places: digits, a point and two digits
TwoDecimals(chars) ==
    /\ Len(chars) >= 4
    /\ chars[Len(chars) - 2] = "."
    /\ \A i \in 1..Len(chars) : i # Len(chars) - 2 => chars[i] \in Digits

\* the text of a price element holds a digit
HasNumeral(price_elm) ==
    /\ price_elm # None
    /\ \E i \in 1..Len(price_elm.text) : price_elm.text[i] \in Digits

\* the first numeral of the text has more digits than a double can hold
OutOfRange(price_elm) ==
    /\ HasNumeral(price_elm)
    /\ LET text == SelectSeq(price_elm.text, LAMBDA c : c # ",")
           first == CHOOSE i \in 1..Len(text) :
                        /\ text[i] \in Digits
                        /\ \A j \in 1..(i - 1) : text[j] \notin Digits
           numeral_ends == {n \in first..Len(text) :
                               \A j \in first..n : text[j] \in Digits}
       IN  Cardinality(numeral_ends) > FLOAT_MAX_DIGITS

\* what C31 says of the product that the item gave: the item gave a
\* product, its price is a numeral with two decimal places, it is "0.00"
\* when there is no price element or no numeral in its text, and the two
\* prices of the docstring come out as "460.00" and "1200.00"
Normalized(item, product) ==
    /\ product # None
    /\ product.price = Join(price_chars(item.price))
    /\ TwoDecimals(price_chars(item.price))
    /\ ~HasNumeral(item.price) => product.price = "0.00"
    /\ (item.price # None /\ item.price.text = <<"4", "6", "0">>)
           => product.price = "460.00"
    /\ (item.price # None
        /\ item.price.text = <<"1", ",", "2", "0", "0", ".", "0", "0", " ",
                               "reh", ".", "seen">>)
           => product.price = "1200.00"

\* C31: every raw item with a title link, a name and an id gives a product,
\* whatever its price element is, no error is counted for it, and the price
\* of the product is a numeral with exactly two decimal places: thousands
\* separators and currency tokens are stripped and the first numeral is
\* taken, and "0.00" stands for a missing element, an empty text and a text
\* without a numeral.
C31_Normalized ==
    pc \in {"request", "scraped"} =>
        LET raw == Titled(RawItems(served))
        IN  /\ Len(all_products) = Len(raw)
            /\ errors_count = 0 \/ FetchFailed
            /\ \A i \in 1..Len(raw) : Normalized(raw[i], all_products[i])

\* the same for the items whose first numeral a double can hold
C31_InRange ==
    pc \in {"request", "scraped"} =>
        LET raw == Titled(RawItems(served))
        IN  /\ Len(all_products) = Len(raw)
            /\ errors_count = 0 \/ FetchFailed
            /\ \A i \in 1..Len(raw) :
                    IF OutOfRange(raw[i].price)
                    THEN all_products[i].price = "inf"
                    ELSE Normalized(raw[i], all_products[i])

\* the item has a title link with a name, in its text or its title attribute
Named(item) == item.title_tag /\ (item.text # "" \/ item.title_attr # "")

\* the URL of the item's link has a last segment before its query string
Identified(item) ==
    LET last == LastPart(normalize_url(item.href), "/")
    IN  last # <<>> /\ Head(last) # "?"

\* the item has a name, an id and a URL of its own
Resolvable(item) == Named(item) /\ Identified(item) /\ item.href # <<>>

\* the names of the items, in the order of the page
NamesOf(items) ==
    [i \in 1..Len(items) |->
        IF items[i].text # "" THEN items[i].text ELSE items[i].title_attr]

\* the scraper has counted no error but that of a page it could not fetch
NoOtherError == errors_count = (IF FetchFailed THEN 1 ELSE 0)

\* C32: the products collected are those of the items that have a name, an
\* id and a URL, in the order of the page: every other item gives no product,
\* adds nothing to the count of errors, ends neither the page nor the
\* collection, and the items before and after it on the page are extracted.
C32_DroppedSilently ==
    pc \in {"request", "scraped"} =>
        LET kept == SelectSeq(RawItems(served), Resolvable)
        IN  /\ [i \in 1..Len(all_products) |-> all_products[i].name]
                   = NamesOf(kept)
            /\ NoOtherError

\* the same with the items whose link has no href counted by the name and
\* the last segment alone: no item without a title link, a name or a last
\* segment gives a product, and every other item gives one
C32_DroppedByNameOrId ==
    pc \in {"request", "scraped"} =>
        LET kept == SelectSeq(RawItems(served),
                              LAMBDA item : Named(item) /\ Identified(item))
        IN  /\ [i \in 1..Len(all_products) |-> all_products[i].name]
                   = NamesOf(kept)
            /\ NoOtherError

\* the two snapshots hold the same ids, each with the status and the price
\* it had
SameStatusAndPrice ==
    /\ Previous = Current
    /\ \A id \in Current :
            /\ Get(old_products, id).status = Get(current_products, id).status
            /\ Get(old_products, id).price = Get(current_products, id).price

\* C33: when the previous and the current snapshot hold the same ids and
\* every id has the status and the price it had, all five lists of the
\* ChangeSet are empty, whatever the names and the URLs are.
C33_NameUrlIgnored ==
    (ChangesBuilt /\ SameStatusAndPrice) =>
        /\ changes.new = <<>>
        /\ changes.deleted = <<>>
        /\ changes.out_of_stock = <<>>
        /\ changes.back_in_stock = <<>>
        /\ changes.price_changes = <<>>

\* two products were compared, product a under a new name and a new URL and
\* product b under a new name, and no list holds an entry
C33_Witness ==
    /\ ChangesBuilt
    /\ SameStatusAndPrice
    /\ Current = {"a", "b"}
    /\ Get(old_products, "a").name # Get(current_products, "a").name
    /\ Get(old_products, "a").url # Get(current_products, "a").url
    /\ Get(old_products, "b").name # Get(current_products, "b").name
    /\ changes = NoChanges

====
